---- MODULE Spec2Model ----
(***************************************************************************)
(* A model of the RfNews_toDB ingestion engine: the article store and the  *)
(* fetch log (DatabaseManager), the pagination and backfill orchestrators  *)
(* (NewsFetcher, RefinitivNewsApp), the category classifier and the row    *)
(* analysis, the remote calls with their waits and retries, and the loops  *)
(* that run jobs until they are stopped.                                   *)
(*                                                                         *)
(* Timestamps are whole seconds; an item's story id is a number in         *)
(* 1..NItems, and 0 stands for a missing (None or empty) field.            *)
(***************************************************************************)
EXTENDS Integers, Sequences, FiniteSets, TLC

VARIABLES
    \* --- DatabaseManager -------------------------------------------------
    rows,               \* table news_articles, in insertion order
    db_is_connected,    \* DatabaseManager.is_connected
    ret,                \* what the last store operation returned
    fetch_log,          \* table news_fetch_log (the row id is the index)
    similarity_enabled, \* config news_filtering.duplicate_detection.enabled
    \* --- the remote source ------------------------------------------------
    ts,                 \* versionCreated of each story of the source
    srcMode,            \* how the source answers (see Pages)
    \* --- one orchestrator run (NewsFetcher / RefinitivNewsApp) ------------
    phase,              \* "idle", "loop", "finish", "done"
    mode,               \* which orchestrator runs
    per_page,
    max_pages,          \* 0 stands for None
    start_date,
    end_date,
    cursor,             \* current_start (pagination) / current_end (backfill)
    page_count,
    seen_story_ids,
    all_news_data,      \* story ids of the pages kept, in order
    totals,             \* total_fetched / total_stored / total_failed
    log_id,             \* id of the run's fetch-log row, 0 for None
    exc,                \* exception that left the loop, "none" if none
    result,             \* what the run returned
    \* --- history of the run ----------------------------------------------
    fetch_calls,        \* calls of fetch_headlines_with_retry in this run
    forwarded,          \* story id -> times handed to bulk_insert_news_articles
    last_req,           \* date range of the latest page request
    last_page,          \* what the latest page request returned
    complete_calls,     \* calls of complete_fetch_log in this run
    call_count,         \* APICallLogger.call_count of the process
    \* --- the category step of fetch_headlines, for one row ----------------
    category,           \* the category asked for, "" for None
    text,               \* row['text'], the headline, as a list of words
    body_text,          \* row['body_text'] as a list of words, <<>> for None
    classified,         \* the row has its detected_category
    detected_category,  \* the joined string, as a list of names and ","
    analyses,           \* what each analysis of the row gave, in order
    \* --- one call of fetch_headlines_with_retry, and the remote side -------
    is_connected,       \* NewsFetcher.is_connected
    retry,              \* the call: its arguments, loop index and result
    outcomes,           \* how each attempt of the call ended, in order
    net_events,         \* sleeps and remote calls of the process, in order
    \* --- a loop that runs jobs until it is stopped --------------------------
    sched               \* the loop, the job in progress and the stop flag

dbVars == <<rows, db_is_connected, ret, fetch_log, similarity_enabled>>
srcVars == <<ts, srcMode>>
runVars == <<phase, mode, per_page, max_pages, start_date, end_date, cursor,
             page_count, seen_story_ids, all_news_data, totals, log_id, exc,
             result>>
histVars == <<fetch_calls, forwarded, last_req, last_page, complete_calls,
              call_count>>

clsVars == <<category, text, body_text, classified, detected_category,
             analyses>>

netVars == <<is_connected, retry, outcomes, net_events, sched>>

notDbVars == <<srcVars, runVars, histVars, clsVars, netVars>>

vars == <<dbVars, srcVars, runVars, histVars, clsVars, netVars>>

-----------------------------------------------------------------------------
(* Bounds of the model *)

\* Number of distinct story ids the store operations of SpecStore use.
NStoreIds == 2
\* Longest article list handed to bulk_insert_news_articles by SpecStore.
MaxBulk == 2
\* Longest table the store operations of SpecStore build.
MaxRows == 2

\* Number of stories the remote source holds.
NItems == 2
\* Largest max_pages a run is started with.
MaxPages == 2

StoryIds == 1..NStoreIds
Missing == 0
Headlines == {"h1", "h2"}

-----------------------------------------------------------------------------
(* DatabaseManager: news_articles *)

\* NewsArticle objects handed to the store (fields may be missing).
Articles ==
    [story_id : StoryIds, headline : Headlines, published_at : {1}]
    \cup {[story_id |-> Missing, headline |-> "h1", published_at |-> 1],
          [story_id |-> 1, headline |-> "", published_at |-> 1],
          [story_id |-> 1, headline |-> "h1", published_at |-> Missing]}

StoredIds(table) == {table[i].story_id : i \in DOMAIN table}

\* NewsArticleORM.validate
validate(article) ==
    /\ article.story_id # Missing
    /\ article.headline # ""
    /\ article.published_at # Missing

\* A story_id column without its UNIQUE constraint.
UniqueViolationOff(table, story_id) == FALSE

\* The UNIQUE constraint on news_articles.story_id, checked by commit().
UniqueViolation(table, story_id) == story_id \in StoredIds(table)

RemoveAt(s, i) == SubSeq(s, 1, i - 1) \o SubSeq(s, i + 1, Len(s))

RowOf(table, story_id) ==
    CHOOSE i \in DOMAIN table : table[i].story_id = story_id

\* The exception the try block of insert_news_article ends with ("none":
\* the commit went through).  fault: the session fails with an error that
\* is no IntegrityError (connection lost, ...).
InsertException(table, article, fault) ==
    IF ~validate(article) THEN "ValueError"
    ELSE IF fault THEN "OperationalError"
    ELSE IF UniqueViolation(table, article.story_id) THEN "IntegrityError"
    ELSE "none"

\* The except clauses of insert_news_article, update_news_article and
\* delete_news_article: "Exception" catches every error.
InsertHandlers == {"IntegrityError", "Exception"}
UpdateHandlers == {"Exception"}

Caught(handlers, err) == err \in handlers \/ "Exception" \in handlers

\* What insert_news_article does to the table and what it returns
\* (raised: the exception left the method).
insert_news_article(table, connected, article, fault) ==
    IF ~connected
    THEN [rows |-> table, value |-> FALSE, raised |-> FALSE]
    ELSE LET err == InsertException(table, article, fault)
         IN  IF err = "none"
             THEN [rows |-> Append(table, article), value |-> TRUE,
                   raised |-> FALSE]
             ELSE [rows |-> table, value |-> FALSE,
                   raised |-> ~Caught(InsertHandlers, err)]

\* is_duplicate_by_similarity, as far as its verdict is constrained without
\* the texts: it answers False when no stored article is recent (here: when
\* the table is empty); otherwise the verdict hit is the vectoriser's.
is_duplicate_by_similarity(table, hit) == table # <<>> /\ hit

\* A loop that ends at the first article it cannot insert.
StopLoop(articles, i) == Len(articles) + 1

\* The for loop goes on with the next article after one it did not insert.
NextArticle(articles, i) == i + 1

\* The for loop of bulk_insert_news_articles from article i on.
\* faults, hits: the indices at which the session fails / the similarity
\* check answers True.
RECURSIVE BulkLoop(_, _, _, _, _, _, _)
BulkLoop(table, articles, i, inserted_count, failed_count, faults, hits) ==
    IF i > Len(articles)
    THEN [rows |-> table, success |-> TRUE, inserted_count |-> inserted_count,
          failed_count |-> failed_count, total_processed |-> Len(articles)]
    ELSE IF similarity_enabled /\ is_duplicate_by_similarity(table, i \in hits)
    THEN BulkLoop(table, articles, NextArticle(articles, i), inserted_count,
                  failed_count + 1, faults, hits)
    ELSE LET r == insert_news_article(table, TRUE, articles[i], i \in faults)
         IN  IF r.value
             THEN BulkLoop(r.rows, articles, i + 1, inserted_count + 1,
                           failed_count, faults, hits)
             ELSE BulkLoop(r.rows, articles, NextArticle(articles, i),
                           inserted_count, failed_count + 1, faults, hits)

\* What became of each article of the list, in order: "inserted", "similar"
\* (skipped by the similarity check) or the exception its insert ended
\* with.
RECURSIVE BulkAttempts(_, _, _, _, _)
BulkAttempts(table, articles, i, faults, hits) ==
    IF i > Len(articles)
    THEN <<>>
    ELSE IF similarity_enabled /\ is_duplicate_by_similarity(table, i \in hits)
    THEN <<"similar">> \o BulkAttempts(table, articles, i + 1, faults, hits)
    ELSE LET err == InsertException(table, articles[i], i \in faults)
         IN  IF err = "none"
             THEN <<"inserted">>
                  \o BulkAttempts(Append(table, articles[i]), articles, i + 1,
                                  faults, hits)
             ELSE <<err>>
                  \o BulkAttempts(table, articles, i + 1, faults, hits)

\* What is kept of the attempts of a bulk insert: how many articles the
\* loop came to, how many of them could be inserted, how many were turned
\* down because their story_id was stored, and whether an article was
\* inserted after another one was not.
BulkHistory(attempts) ==
    LET Ended(kind) == {i \in DOMAIN attempts : attempts[i] = kind}
    IN  [attempted |-> Len(attempts),
         insertable |-> Cardinality(Ended("inserted")),
         duplicates |-> Cardinality(Ended("IntegrityError")),
         resumed |-> \E i, j \in DOMAIN attempts :
                        /\ i < j
                        /\ attempts[i] # "inserted"
                        /\ attempts[j] = "inserted"]

bulk_insert_news_articles(table, connected, articles, faults, hits) ==
    IF ~connected
    THEN [rows |-> table, success |-> FALSE, inserted_count |-> 0,
          failed_count |-> Len(articles), total_processed |-> Missing]
    ELSE BulkLoop(table, articles, 1, 0, 0, faults, hits)

\* update_data: the keys of the dict that name a column, with their values.
UpdateData ==
    [keys : SUBSET {"story_id", "headline"},
     story_id : StoryIds \cup {Missing},
     headline : Headlines]

ApplyUpdate(row, update_data) ==
    [row EXCEPT
        !.story_id = IF "story_id" \in update_data.keys
                     THEN update_data.story_id ELSE @,
        !.headline = IF "headline" \in update_data.keys
                     THEN update_data.headline ELSE @]

\* update_news_article: commit() fails (and the change is rolled back) when
\* the new story_id is NULL or is the story_id of another row.
UpdateException(table, story_id, update_data, fault) ==
    IF fault THEN "OperationalError"
    ELSE LET i == RowOf(table, story_id)
             new == ApplyUpdate(table[i], update_data)
         IN  IF \/ new.story_id = Missing
                \/ UniqueViolation(RemoveAt(table, i), new.story_id)
             THEN "IntegrityError"
             ELSE "none"

update_news_article(table, connected, story_id, update_data, fault) ==
    IF ~connected \/ (~fault /\ story_id \notin StoredIds(table))
    THEN [rows |-> table, value |-> FALSE, raised |-> FALSE]
    ELSE LET err == UpdateException(table, story_id, update_data, fault)
             i == RowOf(table, story_id)
         IN  IF err = "none"
             THEN [rows |-> [table EXCEPT ![i] = ApplyUpdate(@, update_data)],
                   value |-> TRUE, raised |-> FALSE]
             ELSE [rows |-> table, value |-> FALSE,
                   raised |-> ~Caught(UpdateHandlers, err)]

delete_news_article(table, connected, story_id, fault) ==
    IF ~connected \/ (~fault /\ story_id \notin StoredIds(table))
    THEN [rows |-> table, value |-> FALSE, raised |-> FALSE]
    ELSE IF fault
    THEN [rows |-> table, value |-> FALSE,
          raised |-> ~Caught(UpdateHandlers, "OperationalError")]
    ELSE [rows |-> RemoveAt(table, RowOf(table, story_id)), value |-> TRUE,
          raised |-> FALSE]

-----------------------------------------------------------------------------
(* The store operations as actions *)

NoCounts == [inserted_count |-> 0, failed_count |-> 0, total_processed |-> 0]

\* All sequences over S of length at most n.
SeqsUpTo(S, n) == UNION {[1..k -> S] : k \in 0..n}

\* DatabaseManager.connect: test_connection() succeeds or not.
Connect ==
    /\ \E ok \in BOOLEAN :
        /\ db_is_connected' = ok
        /\ ret' = [op |-> "connect", story_id |-> Missing, value |-> ok,
                   raised |-> FALSE, existed |-> FALSE, counts |-> NoCounts]
    /\ UNCHANGED <<rows, fetch_log, similarity_enabled>>
    /\ UNCHANGED notDbVars

InsertNewsArticle ==
    /\ \E article \in Articles, fault \in BOOLEAN :
        LET r == insert_news_article(rows, db_is_connected, article, fault)
        IN  /\ Len(r.rows) <= MaxRows
            /\ rows' = r.rows
            /\ ret' = [op |-> "insert", story_id |-> article.story_id,
                       value |-> r.value, raised |-> r.raised,
                       existed |-> article.story_id \in StoredIds(rows),
                       counts |-> NoCounts]
    /\ UNCHANGED <<db_is_connected, fetch_log, similarity_enabled>>
    /\ UNCHANGED notDbVars

\* What happens at one article of a bulk insert: the similarity check
\* answers True, the session fails, or neither.
Outcomes == {"ok", "fault", "similar"}

BulkInsertNewsArticles ==
    /\ \E articles \in SeqsUpTo(Articles, MaxBulk) :
       \E outcome \in [DOMAIN articles -> Outcomes] :
        LET faults == {i \in DOMAIN articles : outcome[i] = "fault"}
            hits == {i \in DOMAIN articles : outcome[i] = "similar"}
            r == bulk_insert_news_articles(rows, db_is_connected, articles,
                                           faults, hits)
        IN  /\ Len(rows) + Len(articles) <= MaxRows
            /\ rows' = r.rows
            /\ ret' = [op |-> "bulk_insert", story_id |-> Missing,
                       value |-> r.success, raised |-> FALSE,
                       existed |-> FALSE,
                       counts |-> [inserted_count |-> r.inserted_count,
                                   failed_count |-> r.failed_count,
                                   total_processed |-> r.total_processed],
                       history |-> BulkHistory(
                                      IF db_is_connected
                                      THEN BulkAttempts(rows, articles, 1,
                                                        faults, hits)
                                      ELSE <<>>)]
    /\ UNCHANGED <<db_is_connected, fetch_log, similarity_enabled>>
    /\ UNCHANGED notDbVars

UpdateNewsArticle ==
    /\ \E story_id \in StoryIds, update_data \in UpdateData, fault \in BOOLEAN :
        LET r == update_news_article(rows, db_is_connected, story_id,
                                     update_data, fault)
        IN  /\ rows' = r.rows
            /\ ret' = [op |-> "update", story_id |-> story_id,
                       value |-> r.value, raised |-> r.raised,
                       existed |-> story_id \in StoredIds(rows),
                       counts |-> NoCounts]
    /\ UNCHANGED <<db_is_connected, fetch_log, similarity_enabled>>
    /\ UNCHANGED notDbVars

DeleteNewsArticle ==
    /\ \E story_id \in StoryIds, fault \in BOOLEAN :
        LET r == delete_news_article(rows, db_is_connected, story_id, fault)
        IN  /\ rows' = r.rows
            /\ ret' = [op |-> "delete", story_id |-> story_id,
                       value |-> r.value, raised |-> r.raised,
                       existed |-> story_id \in StoredIds(rows),
                       counts |-> NoCounts]
    /\ UNCHANGED <<db_is_connected, fetch_log, similarity_enabled>>
    /\ UNCHANGED notDbVars

-----------------------------------------------------------------------------
(* DatabaseManager: news_fetch_log *)

\* start_fetch_log: the new row and its id (0: None was returned).
start_fetch_log(log, connected, fault) ==
    IF ~connected \/ fault
    THEN [log |-> log, id |-> 0]
    ELSE [log |-> Append(log, [status |-> "running", ended |-> FALSE,
                               articles_fetched |-> 0, articles_inserted |-> 0,
                               articles_updated |-> 0, api_calls |-> 0,
                               error |-> FALSE]),
          id |-> Len(log) + 1]

\* The counts handed to complete_fetch_log; the defaults of its parameters.
Counts(fetched, inserted, updated, api_calls) ==
    [articles_fetched |-> fetched, articles_inserted |-> inserted,
     articles_updated |-> updated, api_calls |-> api_calls]

DefaultCounts == Counts(0, 0, 0, 0)

\* A status that depends on nothing.
StatusCompleted(error) == "completed"

\* "failed" if error_message else "completed"
Status(error) == IF error THEN "failed" ELSE "completed"

\* A completion that writes the status and leaves fetch_end as it is.
complete_fetch_log_open(log, connected, id, counts, error, fault) ==
    IF ~connected \/ fault \/ id \notin DOMAIN log
    THEN [log |-> log, value |-> FALSE]
    ELSE [log |-> [log EXCEPT ![id] =
                      [status |-> Status(error),
                       ended |-> log[id].ended,
                       articles_fetched |-> counts.articles_fetched,
                       articles_inserted |-> counts.articles_inserted,
                       articles_updated |-> counts.articles_updated,
                       api_calls |-> counts.api_calls,
                       error |-> error]],
          value |-> TRUE]

\* complete_fetch_log(log_id, articles_fetched, articles_inserted,
\* articles_updated, api_calls, error_message): error says whether an error
\* message was supplied, fault whether the session raises.
complete_fetch_log(log, connected, id, counts, error, fault) ==
    IF ~connected \/ fault \/ id \notin DOMAIN log
    THEN [log |-> log, value |-> FALSE]
    ELSE [log |-> [log EXCEPT ![id] =
                      [status |-> Status(error),
                       ended |-> TRUE,
                       articles_fetched |-> counts.articles_fetched,
                       articles_inserted |-> counts.articles_inserted,
                       articles_updated |-> counts.articles_updated,
                       api_calls |-> counts.api_calls,
                       error |-> error]],
          value |-> TRUE]

-----------------------------------------------------------------------------
(* The remote source *)

Items == 1..NItems

\* timedelta(hours=1) and timedelta(seconds=1), in seconds.
Hour == 3600
OneSecond == 1

\* The start_date every run is given; one second of the time line lies
\* before it.
StartDate == 2
\* The seconds at which stories are published: as many as there are stories
\* from one second before start_date on, and the two seconds on either
\* side of the one-hour test of the backfill loops.
NearTimes == (StartDate - 1)..(StartDate + NItems - 1)
FarTimes == {StartDate + Hour, StartDate + Hour + 1}
Times == NearTimes \cup FarTimes
EndDates == {StartDate + NItems - 1, StartDate + Hour + 1}

\* The largest per_page of a run.
MaxPer == NItems

Range(s) == {s[i] : i \in DOMAIN s}

InRange(lo, hi) == {i \in Items : lo <= ts[i] /\ ts[i] <= hi}

\* The sets of count most recent stories of [lo, hi] (several when stories
\* share the timestamp at which the page is cut).
TopK(lo, hi, count) ==
    LET all == InRange(lo, hi)
        size == IF Cardinality(all) < count THEN Cardinality(all) ELSE count
    IN  {S \in SUBSET all :
            /\ Cardinality(S) = size
            /\ \A x \in S, y \in all \ S : ts[x] >= ts[y]}

\* S as a sequence, newest first.
RECURSIVE NewestFirst(_)
NewestFirst(S) ==
    IF S = {} THEN <<>>
    ELSE LET x == CHOOSE x \in S : \A y \in S :
                      ts[x] > ts[y] \/ (ts[x] = ts[y] /\ x <= y)
         IN  <<x>> \o NewestFirst(S \ {x})

NoPage == [kind |-> "none", items |-> <<>>, has_ts |-> FALSE]

\* What ek.get_news_headlines, wrapped in the retries of
\* fetch_headlines_with_retry, may answer to a request for count stories of
\* [lo, hi]: kind "none" when every attempt failed, else the rows (story
\* ids) and whether they carry the versionCreated column.
\*   newest_first: the count most recent stories of the range;
\*   in_range:     at most count rows, repeats included, of stories of the
\*                 range;
\*   arbitrary:    at most count rows of any stories, or a failure.
Pages(lo, hi, count) ==
    CASE srcMode = "newest_first" ->
            {[kind |-> "data", items |-> NewestFirst(S), has_ts |-> TRUE] :
                S \in TopK(lo, hi, count)}
      [] srcMode = "in_range" ->
            {[kind |-> "data", items |-> q, has_ts |-> TRUE] :
                q \in SeqsUpTo(InRange(lo, hi), count)}
      [] OTHER ->
            {NoPage} \cup
            {[kind |-> "data", items |-> q, has_ts |-> h] :
                q \in SeqsUpTo(Items, count), h \in BOOLEAN}

-----------------------------------------------------------------------------
(* NewsFetcher *)

\* The rows of a page: one per story id returned, with the versionCreated
\* column or without it.
Tagged(items, has_ts) ==
    [i \in DOMAIN items |-> [story_id |-> items[i], has_ts |-> has_ts]]

Ids(data) == {data[i].story_id : i \in DOMAIN data}

\* drop_duplicates(subset=['storyId']): the first row of each story id.
RECURSIVE drop_duplicates(_)
drop_duplicates(data) ==
    IF data = <<>> THEN <<>>
    ELSE LET init == drop_duplicates(SubSeq(data, 1, Len(data) - 1))
             last == data[Len(data)]
         IN  IF last.story_id \in Ids(init) THEN init ELSE Append(init, last)

\* _validate_and_clean_data, on the rows of a page.
validate_and_clean_data(data) == drop_duplicates(data)

\* What fetch_headlines_with_retry hands to the orchestrator: None ("none")
\* or the cleaned DataFrame.
fetch_headlines_with_retry(page) ==
    IF page.kind = "none"
    THEN [kind |-> "none", data |-> <<>>]
    ELSE [kind |-> "data",
          data |-> validate_and_clean_data(Tagged(page.items, page.has_ts))]

\* eikon.max_retries of the default configuration.
max_retries_default == 3

\* The calls fetch_headlines_with_retry logs for a page: a page it gives up
\* on was asked for max_retries times, each call logged as failed; a page
\* of data was logged once by the call that returned it.
api_calls_of(page) == IF page.kind = "none" THEN max_retries_default ELSE 1

\* A page taken as it comes, whatever was seen before.
NotSeenOff(data, seen) == data

\* page_data[~page_data['storyId'].isin(seen_story_ids)]
NotSeen(data, seen) ==
    LET Fresh(r) == r.story_id \notin seen IN SelectSeq(data, Fresh)

\* 'versionCreated' in page_data.columns (the rows of a page agree on it;
\* an empty frame keeps the columns of the page it was cut from).
HasVersionCreated(page_data, fetched) ==
    IF fetched = <<>> THEN FALSE ELSE fetched[1].has_ts

\* The largest versionCreated of page_data.
NewestDatetime(page_data) ==
    LET i == CHOOSE i \in DOMAIN page_data : \A j \in DOMAIN page_data :
                 ts[page_data[i].story_id] >= ts[page_data[j].story_id]
    IN  ts[page_data[i].story_id]

\* The versionCreated of the last row of page_data sorted newest first,
\* which is also that of its first row sorted oldest first.
OldestDatetime(page_data) ==
    LET i == CHOOSE i \in DOMAIN page_data : \A j \in DOMAIN page_data :
                 ts[page_data[i].story_id] <= ts[page_data[j].story_id]
    IN  ts[page_data[i].story_id]

\* A cursor put on the oldest row itself.
NextStartNoStep(page_data) == OldestDatetime(page_data)

\* fetch_headlines_paginated: current_start after a full page.
NextStart(page_data) == OldestDatetime(page_data) + OneSecond

\* An end bound put on the oldest row itself.
NextEndNoStep(page_data) == OldestDatetime(page_data)

\* fetch_headlines_backfill, fetch_and_store_news_backfill: next_end.
NextEnd(page_data) == OldestDatetime(page_data) - OneSecond

\* The short-page test of the two backfill loops: the run ends.
ShortPageEnds(api_returned_count, current_end) ==
    /\ api_returned_count < per_page
    /\ ~(current_end > start_date + Hour)

\* A loop that keeps only the page at hand.
StepForgets(next, e, cur, new, seen, all) ==
    [next |-> next, exc |-> e, cursor |-> cur, page_data |-> new,
     seen |-> seen, all |-> new]

Step(next, e, cur, new, seen, all) ==
    [next |-> next, exc |-> e, cursor |-> cur, page_data |-> new,
     seen |-> seen, all |-> all]

\* One iteration of the while loop of fetch_headlines_paginated after the
\* max_pages test, given what the page fetch returned.
PaginatedIteration(fetched) ==
    IF fetched.kind = "none" \/ fetched.data = <<>>
    THEN Step("finish", "none", cursor, <<>>, seen_story_ids, all_news_data)
    ELSE LET api_returned_count == Len(fetched.data)
             page_data == NotSeen(fetched.data, seen_story_ids)
             seen == seen_story_ids \cup Ids(page_data)
             all == all_news_data \o page_data
         IN  IF api_returned_count < per_page
             THEN Step("finish", "none", cursor, page_data, seen, all)
             ELSE IF ~HasVersionCreated(page_data, fetched.data)
             THEN Step("finish", "none", cursor, page_data, seen, all)
             ELSE IF page_data = <<>>
             THEN Step("finish", "IndexError", cursor, page_data, seen, all)
             ELSE LET current_start == NextStart(page_data)
                  IN  Step(IF current_start >= end_date THEN "finish"
                           ELSE "loop",
                           "none", current_start, page_data, seen, all)

\* One iteration of the while loop of fetch_headlines_backfill and of
\* fetch_and_store_news_backfill after the max_pages test.
BackfillIteration(fetched) ==
    IF fetched.kind = "none" \/ fetched.data = <<>>
    THEN Step("finish", "none", cursor, <<>>, seen_story_ids, all_news_data)
    ELSE LET api_returned_count == Len(fetched.data)
             page_data == NotSeen(fetched.data, seen_story_ids)
             seen == seen_story_ids \cup Ids(page_data)
             all == all_news_data \o page_data
         IN  IF ShortPageEnds(api_returned_count, cursor)
             THEN Step("finish", "none", cursor, page_data, seen, all)
             ELSE IF ~(HasVersionCreated(page_data, fetched.data)
                       /\ page_data # <<>>)
             THEN Step("finish", "none", cursor, page_data, seen, all)
             ELSE LET next_end == NextEnd(page_data)
                  IN  IF next_end <= start_date
                      THEN Step("finish", "none", cursor, page_data, seen, all)
                      ELSE Step("loop", "none", next_end, page_data, seen, all)

\* The iteration gets as far as next_end <= start_date.
ReachesComparison(fetched) ==
    /\ fetched.kind = "data" /\ fetched.data # <<>>
    /\ ~ShortPageEnds(Len(fetched.data), cursor)
    /\ HasVersionCreated(NotSeen(fetched.data, seen_story_ids), fetched.data)
    /\ NotSeen(fetched.data, seen_story_ids) # <<>>

\* One iteration of the while loop of fetch_and_store_news_backfill, which
\* is inside a try: the versionCreated values of the page can be compared
\* with start_date, or one of them is timezone-aware and the other is not
\* and next_end <= start_date raises TypeError.
BackfillStoreIteration(fetched, comparable) ==
    LET st == BackfillIteration(fetched)
    IN  IF ReachesComparison(fetched) /\ ~comparable
        THEN Step("finish", "TypeError", cursor, st.page_data, st.seen, st.all)
        ELSE st

\* create_news_articles: a row without story id, headline or versionCreated
\* is skipped.
create_news_articles(data) ==
    LET Complete(r) == r.story_id # Missing /\ r.has_ts
        kept == SelectSeq(data, Complete)
    IN  [i \in DOMAIN kept |->
            [story_id |-> kept[i].story_id, headline |-> "h1",
             published_at |-> ts[kept[i].story_id]]]

\* forwarded, after articles were handed to bulk_insert_news_articles.
Forward(fwd, articles) ==
    [i \in Items |->
        fwd[i]
        + Cardinality({k \in DOMAIN articles : articles[k].story_id = i})]

-----------------------------------------------------------------------------
(* The orchestrators as actions *)

Modes == {"single", "paginated", "backfill_fetch", "backfill"}
SrcModes == {"newest_first", "in_range", "arbitrary"}

NoTotals == [fetched |-> 0, stored |-> 0, failed |-> 0]
NoResult == [success |-> FALSE, articles_fetched |-> 0, articles_stored |-> 0,
             frame |-> <<>>]
NoRequest == [lo |-> 0, hi |-> 0]
NoPageSeen == [returned |-> 0, count |-> 0, oldest |-> 0, oldest_new |-> 0,
               newest_new |-> 0, repeated |-> FALSE]

\* No row is being classified.
NoRow ==
    /\ category = ""
    /\ text = <<>>
    /\ body_text = <<>>
    /\ classified = FALSE
    /\ detected_category = <<>>
    /\ analyses = <<>>

\* fetch_headlines_with_retry was not called and nothing was sent or waited
\* for.
NoCall == [phase |-> "idle", max_retries |-> 0, fetch_body |-> FALSE,
           attempt |-> 0, result |-> "none"]

\* No loop was entered.
NoLoop == [loop |-> "none", pc |-> "idle", should_stop |-> FALSE,
           log_id |-> 0, fetched |-> "none", jobs |-> 0]

NetIdle ==
    /\ retry = NoCall
    /\ outcomes = <<>>
    /\ net_events = <<>>
    /\ sched = NoLoop

\* No run has started.
RunIdle ==
    /\ phase = "idle"
    /\ mode = "none"
    /\ per_page = 0
    /\ max_pages = 0
    /\ start_date = 0
    /\ end_date = 0
    /\ cursor = 0
    /\ page_count = 0
    /\ seen_story_ids = {}
    /\ all_news_data = <<>>
    /\ totals = NoTotals
    /\ log_id = 0
    /\ exc = "none"
    /\ result = NoResult
    /\ fetch_calls = 0
    /\ forwarded = [i \in Items |-> 0]
    /\ last_req = NoRequest
    /\ last_page = NoPageSeen
    /\ complete_calls = 0
    /\ call_count = 0

\* What is kept of a page for the history: the number of rows the source
\* returned, the number of rows handed to the orchestrator, the oldest versionCreated among the rows returned and among
\* those of them not seen before, the newest among the latter (0: there is
\* none), and whether a story id came twice in the page or was seen on an
\* earlier page.
Seen(page, fetched) ==
    [returned |-> IF page.kind = "data" THEN Len(page.items) ELSE 0,
     count |-> Len(fetched.data),
     oldest |-> IF page.kind = "data" /\ page.items # <<>> /\ page.has_ts
                THEN OldestDatetime(fetched.data) ELSE 0,
     oldest_new |-> IF /\ page.kind = "data" /\ page.has_ts
                       /\ NotSeen(fetched.data, seen_story_ids) # <<>>
                    THEN OldestDatetime(NotSeen(fetched.data, seen_story_ids))
                    ELSE 0,
     newest_new |-> IF /\ page.kind = "data" /\ page.has_ts
                       /\ NotSeen(fetched.data, seen_story_ids) # <<>>
                    THEN NewestDatetime(NotSeen(fetched.data, seen_story_ids))
                    ELSE 0,
     repeated |-> \/ Len(fetched.data) < Len(page.items)
                  \/ Ids(fetched.data) \cap seen_story_ids # {}]

\* The entry of fetch_and_store_news_paginated (m = "paginated"),
\* fetch_headlines_backfill (m = "backfill_fetch") and
\* fetch_and_store_news_backfill (m = "backfill") up to the while loop, and
\* of fetch_and_store_news (m = "single", which has no max_pages) up to its
\* fetch.
StartRun(m) ==
    /\ phase = "idle"
    /\ \E pp \in 1..MaxPer, e \in EndDates,
          mp \in IF m = "single" THEN {0} ELSE 0..MaxPages :
        /\ mode' = m
        /\ per_page' = pp
        /\ max_pages' = mp
        /\ start_date' = StartDate
        /\ end_date' = e
        /\ cursor' = IF m = "paginated" THEN StartDate ELSE e
    /\ LET started == start_fetch_log(fetch_log, db_is_connected, FALSE)
       IN  IF m = "backfill_fetch"
           THEN UNCHANGED <<fetch_log, log_id>>
           ELSE fetch_log' = started.log /\ log_id' = started.id
    /\ phase' = "loop"
    /\ UNCHANGED <<page_count, seen_story_ids, all_news_data, totals, exc,
                   result>>
    /\ UNCHANGED <<rows, db_is_connected, ret, similarity_enabled>>
    /\ UNCHANGED <<clsVars, netVars, srcVars, histVars>>

\* A max_pages test that lets one more page through.
MaxPagesReachedLate == max_pages # 0 /\ page_count + 1 > max_pages + 1

\* The max_pages test at the head of each loop: the loop ends.
MaxPagesReached == max_pages # 0 /\ page_count + 1 > max_pages

LoopEndsAtHead ==
    /\ phase' = "finish"
    /\ UNCHANGED <<cursor, seen_story_ids, all_news_data, totals, exc>>
    /\ UNCHANGED <<dbVars, histVars>>

\* One pass through the while loop of fetch_headlines_paginated.  (Here and
\* below fetched, st, articles and stored are each the one value of their
\* set.)
PaginatedPage ==
    /\ phase = "loop" /\ mode = "paginated"
    /\ page_count' = page_count + 1
    /\ IF MaxPagesReached
       THEN LoopEndsAtHead
       ELSE \E page \in Pages(cursor, end_date, per_page) :
            \E fetched \in {fetch_headlines_with_retry(page)} :
            \E st \in {PaginatedIteration(fetched)} :
                /\ fetch_calls' = fetch_calls + 1
                /\ call_count' = call_count + api_calls_of(page)
                /\ last_req' = [lo |-> cursor, hi |-> end_date]
                /\ last_page' = Seen(page, fetched)
                /\ cursor' = st.cursor
                /\ seen_story_ids' = st.seen
                /\ all_news_data' = st.all
                /\ exc' = st.exc
                /\ phase' = st.next
                /\ UNCHANGED <<totals, forwarded, complete_calls, dbVars>>
    /\ UNCHANGED <<mode, per_page, max_pages, start_date, end_date, log_id,
                   result>>
    /\ UNCHANGED <<srcVars, clsVars, netVars>>

\* One pass through the while loop of fetch_headlines_backfill.
BackfillFetchPage ==
    /\ phase = "loop" /\ mode = "backfill_fetch"
    /\ page_count' = page_count + 1
    /\ IF MaxPagesReached
       THEN LoopEndsAtHead
       ELSE \E page \in Pages(start_date, cursor, per_page) :
            \E fetched \in {fetch_headlines_with_retry(page)} :
            \E st \in {BackfillIteration(fetched)} :
                /\ fetch_calls' = fetch_calls + 1
                /\ call_count' = call_count + api_calls_of(page)
                /\ last_req' = [lo |-> start_date, hi |-> cursor]
                /\ last_page' = Seen(page, fetched)
                /\ cursor' = st.cursor
                /\ seen_story_ids' = st.seen
                /\ all_news_data' = st.all
                /\ exc' = st.exc
                /\ phase' = st.next
                /\ UNCHANGED <<totals, forwarded, complete_calls, dbVars>>
    /\ UNCHANGED <<mode, per_page, max_pages, start_date, end_date, log_id,
                   result>>
    /\ UNCHANGED <<srcVars, clsVars, netVars>>

\* One pass through the while loop of fetch_and_store_news_backfill: the
\* new rows of the page are stored before the loop goes on.
BackfillPage ==
    /\ phase = "loop" /\ mode = "backfill"
    /\ page_count' = page_count + 1
    /\ IF MaxPagesReached
       THEN LoopEndsAtHead
       ELSE \E page \in Pages(start_date, cursor, per_page) :
            \E fetched \in {fetch_headlines_with_retry(page)} :
            \E comparable \in BOOLEAN :
            \E st \in {BackfillStoreIteration(fetched, comparable)} :
            \E articles \in {create_news_articles(st.page_data)} :
            \E stored \in {bulk_insert_news_articles(rows, db_is_connected,
                                                    articles, {}, {})} :
                /\ fetch_calls' = fetch_calls + 1
                /\ call_count' = call_count + api_calls_of(page)
                /\ last_req' = [lo |-> start_date, hi |-> cursor]
                /\ last_page' = Seen(page, fetched)
                /\ cursor' = st.cursor
                /\ seen_story_ids' = st.seen
                /\ exc' = st.exc
                /\ phase' = st.next
                /\ IF st.page_data # <<>>
                   THEN /\ rows' = stored.rows
                        /\ forwarded' = Forward(forwarded, articles)
                        /\ totals' =
                            [fetched |-> totals.fetched + Len(articles),
                             stored |-> totals.stored + stored.inserted_count,
                             failed |-> totals.failed + stored.failed_count]
                   ELSE UNCHANGED <<rows, forwarded, totals>>
                /\ UNCHANGED <<all_news_data, db_is_connected, ret, fetch_log,
                               similarity_enabled, complete_calls>>
    /\ UNCHANGED <<mode, per_page, max_pages, start_date, end_date, log_id,
                   result>>
    /\ UNCHANGED <<srcVars, clsVars, netVars>>

\* get_api_stats()['total_calls'] after calls more calls were logged.
total_calls(calls) == call_count + calls

\* An exit that leaves the log row as it is.
CompleteNever(counts, error) == UNCHANGED <<fetch_log, complete_calls>>

\* if log_id: complete_fetch_log(...)
CompleteIfLogged(counts, error) ==
    IF log_id # 0
    THEN /\ fetch_log' = complete_fetch_log(fetch_log, db_is_connected,
                                            log_id, counts, error, FALSE).log
         /\ complete_calls' = complete_calls + 1
    ELSE UNCHANGED <<fetch_log, complete_calls>>

\* fetch_and_store_news after start_fetch_log: the fetch of count = per_page
\* items and what is done with them.
FetchAndStoreNews ==
    /\ phase = "loop" /\ mode = "single"
    /\ \E page \in Pages(start_date, end_date, per_page) :
       \E news_data \in {fetch_headlines_with_retry(page)} :
       \E articles \in {create_news_articles(news_data.data)} :
       \E stored \in {bulk_insert_news_articles(rows, db_is_connected,
                                               articles, {}, {})} :
           /\ fetch_calls' = fetch_calls + 1
           /\ call_count' = call_count + api_calls_of(page)
           /\ last_req' = [lo |-> start_date, hi |-> end_date]
           /\ last_page' = Seen(page, news_data)
           /\ IF news_data.kind = "none" \/ news_data.data = <<>>
              THEN /\ CompleteIfLogged(DefaultCounts, TRUE)
                   /\ result' = [success |-> FALSE, articles_fetched |-> 0,
                                 articles_stored |-> 0, frame |-> <<>>]
                   /\ UNCHANGED <<rows, forwarded>>
              ELSE /\ rows' = stored.rows
                   /\ forwarded' = Forward(forwarded, articles)
                   /\ CompleteIfLogged(
                          Counts(Len(articles), stored.inserted_count, 0,
                                 total_calls(api_calls_of(page))), FALSE)
                   /\ result' = [success |-> TRUE,
                                 articles_fetched |-> Len(articles),
                                 articles_stored |-> stored.inserted_count,
                                 frame |-> news_data.data]
    /\ phase' = "done"
    /\ UNCHANGED <<mode, per_page, max_pages, start_date, end_date, cursor,
                   page_count, seen_story_ids, all_news_data, totals, log_id,
                   exc>>
    /\ UNCHANGED <<db_is_connected, ret, similarity_enabled>>
    /\ UNCHANGED <<clsVars, netVars, srcVars>>

\* fetch_headlines_paginated after its loop, and what
\* fetch_and_store_news_paginated does with the frame it returns (or with
\* the exception that left it).
PaginatedFinish ==
    /\ phase = "finish" /\ mode = "paginated"
    /\ \E news_data \in {drop_duplicates(all_news_data)} :
       \E articles \in {create_news_articles(news_data)} :
       \E stored \in {bulk_insert_news_articles(rows, db_is_connected,
                                               articles, {}, {})} :
           IF exc # "none" \/ news_data = <<>>
           THEN /\ CompleteIfLogged(DefaultCounts, TRUE)
                /\ result' = [success |-> FALSE, articles_fetched |-> 0,
                              articles_stored |-> 0, frame |-> news_data]
                /\ UNCHANGED <<rows, forwarded>>
           ELSE /\ rows' = stored.rows
                /\ forwarded' = Forward(forwarded, articles)
                /\ CompleteIfLogged(Counts(Len(articles),
                                           stored.inserted_count, 0,
                                           total_calls(0)), FALSE)
                /\ result' = [success |-> TRUE,
                              articles_fetched |-> Len(articles),
                              articles_stored |-> stored.inserted_count,
                              frame |-> news_data]
    /\ phase' = "done"
    /\ UNCHANGED <<mode, per_page, max_pages, start_date, end_date, cursor,
                   page_count, seen_story_ids, all_news_data, totals, log_id,
                   exc>>
    /\ UNCHANGED <<db_is_connected, ret, similarity_enabled>>
    /\ UNCHANGED <<clsVars, netVars, srcVars, fetch_calls, last_req, last_page,
                   call_count>>

\* fetch_headlines_backfill after its loop: the frame it returns.
BackfillFetchFinish ==
    /\ phase = "finish" /\ mode = "backfill_fetch"
    /\ result' = [success |-> TRUE, articles_fetched |-> 0,
                  articles_stored |-> 0,
                  frame |-> drop_duplicates(all_news_data)]
    /\ phase' = "done"
    /\ UNCHANGED <<mode, per_page, max_pages, start_date, end_date, cursor,
                   page_count, seen_story_ids, all_news_data, totals, log_id,
                   exc>>
    /\ UNCHANGED <<dbVars, srcVars, histVars, clsVars, netVars>>

\* fetch_and_store_news_backfill after its loop, or in its except clause.
BackfillFinish ==
    /\ phase = "finish" /\ mode = "backfill"
    /\ IF exc # "none"
       THEN /\ CompleteIfLogged(DefaultCounts, TRUE)
            /\ result' = [success |-> FALSE, articles_fetched |-> 0,
                          articles_stored |-> 0, frame |-> <<>>]
       ELSE /\ CompleteIfLogged(Counts(totals.fetched, totals.stored, 0,
                                       total_calls(0)), FALSE)
            /\ result' = [success |-> TRUE,
                          articles_fetched |-> totals.fetched,
                          articles_stored |-> totals.stored, frame |-> <<>>]
    /\ phase' = "done"
    /\ UNCHANGED <<mode, per_page, max_pages, start_date, end_date, cursor,
                   page_count, seen_story_ids, all_news_data, totals, log_id,
                   exc>>
    /\ UNCHANGED <<rows, db_is_connected, ret, similarity_enabled>>
    /\ UNCHANGED <<clsVars, netVars, srcVars, fetch_calls, forwarded, last_req,
                   last_page, call_count>>

\* The stories of the source, oldest first by story id (a renaming of the
\* ids, which nothing reads but for equality).
SourceContents ==
    {f \in [Items -> Times] : \A i, j \in Items : i <= j => f[i] <= f[j]}

\* An initialised application (both connections made) on an empty database,
\* before a run.
InitRun ==
    /\ rows = <<>>
    /\ db_is_connected = TRUE
    /\ ret = [op |-> "init", story_id |-> Missing, value |-> FALSE,
              raised |-> FALSE, existed |-> FALSE, counts |-> NoCounts]
    /\ fetch_log = <<>>
    /\ similarity_enabled = FALSE
    /\ ts \in SourceContents
    /\ srcMode \in SrcModes
    /\ RunIdle
    /\ NetIdle
    /\ is_connected = TRUE
    /\ NoRow

NextRun ==
    \/ \E m \in Modes : StartRun(m)
    \/ FetchAndStoreNews
    \/ PaginatedPage
    \/ BackfillFetchPage
    \/ BackfillPage
    \/ PaginatedFinish
    \/ BackfillFetchFinish
    \/ BackfillFinish

SpecRun == InitRun /\ [][NextRun]_vars

\* The loops and what follows them are code that runs on: no step waits.
FairSpecRun == SpecRun /\ WF_vars(NextRun)

\* A DatabaseManager right after construction, on an empty database.
InitStore ==
    /\ rows = <<>>
    /\ db_is_connected = FALSE
    /\ ret = [op |-> "init", story_id |-> Missing, value |-> FALSE,
              raised |-> FALSE, existed |-> FALSE, counts |-> NoCounts]
    /\ fetch_log = <<>>
    /\ similarity_enabled \in BOOLEAN
    /\ ts = [i \in Items |-> 1]
    /\ srcMode = "arbitrary"
    /\ RunIdle
    /\ NetIdle
    /\ is_connected = FALSE
    /\ NoRow

NextStore ==
    \/ Connect
    \/ InsertNewsArticle
    \/ BulkInsertNewsArticles
    \/ UpdateNewsArticle
    \/ DeleteNewsArticle

SpecStore == InitStore /\ [][NextStore]_vars

\* Most rows news_fetch_log holds in SpecLog.
MaxLog == 2

\* Counts a caller hands to complete_fetch_log.
LoggedCounts == {DefaultCounts, Counts(2, 1, 0, 3), Counts(4, 3, 2, 1)}

\* start_fetch_log()
StartFetchLog ==
    /\ Len(fetch_log) < MaxLog
    /\ \E fault \in BOOLEAN :
       \E started \in {start_fetch_log(fetch_log, db_is_connected, fault)} :
           /\ fetch_log' = started.log
           /\ ret' = [op |-> "start_fetch_log", log_id |-> started.id,
                      raised |-> fault]
    /\ UNCHANGED <<rows, db_is_connected, similarity_enabled>>
    /\ UNCHANGED notDbVars

\* complete_fetch_log(log_id, ...) for the id of a row or another id; an
\* error message is supplied (a non-empty string) or not.
CompleteFetchLog ==
    /\ \E id \in 1..(MaxLog + 1), counts \in LoggedCounts,
          error \in BOOLEAN, fault \in BOOLEAN :
       \E completed \in {complete_fetch_log(fetch_log, db_is_connected, id,
                                            counts, error, fault)} :
           /\ fetch_log' = completed.log
           /\ ret' = [op |-> "complete_fetch_log", log_id |-> id,
                      counts |-> counts, error |-> error, raised |-> fault,
                      value |-> completed.value]
    /\ UNCHANGED <<rows, db_is_connected, similarity_enabled>>
    /\ UNCHANGED notDbVars

NextLog ==
    \/ Connect
    \/ StartFetchLog
    \/ CompleteFetchLog

\* A DatabaseManager after construction and the calls made on its fetch log.
SpecLog == InitStore /\ [][NextLog]_vars

\* The scheduler's next job on the same application: the locals of the run
\* that ended are gone; the database, the source and the fetcher's
\* APICallLogger are those of the process.
NextJob ==
    /\ phase = "done"
    /\ Len(fetch_log) < MaxLog
    /\ phase' = "idle"
    /\ mode' = "none"
    /\ per_page' = 0
    /\ max_pages' = 0
    /\ start_date' = 0
    /\ end_date' = 0
    /\ cursor' = 0
    /\ page_count' = 0
    /\ seen_story_ids' = {}
    /\ all_news_data' = <<>>
    /\ totals' = NoTotals
    /\ log_id' = 0
    /\ exc' = "none"
    /\ result' = NoResult
    /\ fetch_calls' = 0
    /\ forwarded' = [i \in Items |-> 0]
    /\ last_req' = NoRequest
    /\ last_page' = NoPageSeen
    /\ complete_calls' = 0
    /\ UNCHANGED <<call_count, dbVars, srcVars, clsVars, netVars>>

NextJobs ==
    \/ StartRun("single")
    \/ FetchAndStoreNews
    \/ NextJob

\* The jobs of one process, each a call of fetch_and_store_news.
SpecJobs == InitRun /\ [][NextJobs]_vars

\* fetch_since_latest, called on the application between two jobs:
\* initialize() connects the fetcher and then the manager and False is
\* returned if one of them fails; otherwise
\* self.db_manager.get_latest_article_time() is evaluated, DatabaseManager
\* has no attribute of that name, and the AttributeError leaves
\* fetch_since_latest before its loop over the categories.
FetchSinceLatest ==
    /\ phase = "idle"
    /\ \E fetcher_ok, db_ok \in BOOLEAN :
        /\ is_connected' = fetcher_ok
        /\ db_is_connected' = IF fetcher_ok THEN db_ok ELSE db_is_connected
        /\ exc' = IF fetcher_ok /\ db_ok THEN "AttributeError" ELSE "none"
    /\ mode' = "since_latest"
    /\ phase' = "ended"
    /\ result' = NoResult
    /\ UNCHANGED <<per_page, max_pages, start_date, end_date, cursor,
                   page_count, seen_story_ids, all_news_data, totals, log_id>>
    /\ UNCHANGED <<rows, ret, fetch_log, similarity_enabled>>
    /\ UNCHANGED <<retry, outcomes, net_events, sched>>
    /\ UNCHANGED <<srcVars, histVars, clsVars>>

NextSince ==
    \/ StartRun("single")
    \/ FetchAndStoreNews
    \/ NextJob
    \/ FetchSinceLatest

\* The jobs of one process, the last of them a call of fetch_since_latest.
SpecSince == InitRun /\ [][NextSince]_vars

\* The process is ended between two iterations of the loop of
\* fetch_and_store_news_backfill (a signal, which except Exception does not
\* catch): the pages stored so far are committed and the fetch-log row
\* stays as it is.
Crash ==
    /\ phase = "loop" /\ mode = "backfill" /\ page_count > 0
    /\ phase' = "crashed"
    /\ UNCHANGED <<mode, per_page, max_pages, start_date, end_date, cursor,
                   page_count, seen_story_ids, all_news_data, totals, log_id,
                   exc, result>>
    /\ UNCHANGED <<dbVars, srcVars, histVars, clsVars, netVars>>

\* fetch_and_store_news_backfill is called again with the arguments of the
\* run that crashed or ended in its except clause, in a new process on the
\* same database: its entry up to the while loop.
RunAgain ==
    /\ mode = "backfill"
    /\ phase = "crashed" \/ (phase = "done" /\ exc # "none")
    /\ Len(fetch_log) < MaxLog
    /\ \E started \in {start_fetch_log(fetch_log, db_is_connected, FALSE)} :
        /\ fetch_log' = started.log
        /\ log_id' = started.id
    /\ phase' = "loop"
    /\ cursor' = end_date
    /\ page_count' = 0
    /\ seen_story_ids' = {}
    /\ all_news_data' = <<>>
    /\ totals' = NoTotals
    /\ exc' = "none"
    /\ result' = NoResult
    /\ fetch_calls' = 0
    /\ forwarded' = [i \in Items |-> 0]
    /\ last_req' = NoRequest
    /\ last_page' = NoPageSeen
    /\ complete_calls' = 0
    /\ call_count' = 0
    /\ UNCHANGED <<mode, per_page, max_pages, start_date, end_date>>
    /\ UNCHANGED <<rows, db_is_connected, ret, similarity_enabled>>
    /\ UNCHANGED <<srcVars, clsVars, netVars>>

NextAgain ==
    \/ StartRun("backfill")
    \/ BackfillPage
    \/ BackfillFinish
    \/ Crash
    \/ RunAgain

\* The source answers a request in one way only: the most recent stories
\* of the range, no two stories with the same timestamp.
SameAnswers ==
    /\ srcMode = "newest_first"
    /\ \A i, j \in Items : i # j => ts[i] # ts[j]

\* An initialised application on an empty database, before a run against
\* such a source.
InitAgain == InitRun /\ SameAnswers

\* Backfill runs that may stop part-way and be run again.
SpecAgain == InitAgain /\ [][NextAgain]_vars

-----------------------------------------------------------------------------
(* NewsFetcher.fetch_headlines: category detection *)

\* Longest headline and longest body of a row, in words.
MaxHeadline == 2
MaxBody == 1

\* The words of the texts.  A text is the list of its words, so that the \b
\* of the patterns falls between two words and nowhere else; "leading" is a
\* word that holds a trigger term without being one.  The Japanese terms of
\* the source are written in Latin letters: "ny_shijou_summary" and
\* "fw_ny_shijou_summary" stand for the half-width and the full-width
\* spellings of the NY market summary title.
Vocabulary ==
    {"Copper", "zinc", "lead", "leading", "exchange", "rate",
     "ny_shijou_summary", "prices"}

\* str.lower(), word by word.
LowerWord(w) == IF w = "Copper" THEN "copper" ELSE w

lower(words) == [i \in DOMAIN words |-> LowerWord(words[i])]

\* The alternatives of each pattern, each a list of words.
TriggerTerms(cat) ==
    CASE cat = "COPPER" -> {<<"copper">>, <<"dou">>}
      [] cat = "ALUMINIUM" -> {<<"aluminum">>, <<"aluminium">>, <<"arumi">>}
      [] cat = "ZINC" -> {<<"zinc">>, <<"aen">>}
      [] cat = "LEAD" -> {<<"lead">>, <<"namari">>}
      [] cat = "NICKEL" -> {<<"nickel">>, <<"nikkeru">>}
      [] cat = "TIN" -> {<<"tin">>, <<"suzu">>}
      [] cat = "EQUITY" -> {<<"equity">>, <<"equities">>, <<"stock">>,
                            <<"stocks">>, <<"share">>, <<"shares">>,
                            <<"kabushiki">>, <<"kabuka">>}
      [] cat = "FOREX" -> {<<"forex">>, <<"fx">>, <<"currency">>,
                           <<"currencies">>, <<"exchange", "rate">>,
                           <<"kawase">>, <<"gaikoku_kawase">>, <<"tsuuka">>}
      [] cat = "COMMODITIES" -> {<<"commodity">>, <<"commodities">>,
                                 <<"shouhin">>, <<"komoditi">>}
      [] cat = "NY_MARKET" -> {<<"ny_shijou_summary">>,
                               <<"fw_ny_shijou_summary">>}
      [] OTHER -> {}

\* re.search(pattern, words): an alternative of the pattern is found.
search(terms, words) ==
    \E t \in terms : \E i \in 1..(Len(words) - Len(t) + 1) :
        SubSeq(words, i, i + Len(t) - 1) = t

\* The order of the if statements.
DetectionOrder ==
    <<"COPPER", "ALUMINIUM", "ZINC", "LEAD", "NICKEL", "TIN", "EQUITY",
      "FOREX", "COMMODITIES", "NY_MARKET">>

\* A pattern searched in headline and body whatever the category.
SearchedTextFull(cat, headline, full_text) == full_text

\* The text each pattern is searched in: NY_MARKET is looked for in the
\* headline only.
SearchedText(cat, headline, full_text) ==
    IF cat = "NY_MARKET" THEN headline ELSE full_text

\* An append that does not look at the list.
AppendAlways(categories_found, cat) == Append(categories_found, cat)

\* if cat not in categories_found: categories_found.append(cat)
AppendIfAbsent(categories_found, cat) ==
    IF cat \in Range(categories_found) THEN categories_found
    ELSE Append(categories_found, cat)

\* The if statements from the k-th on.
RECURSIVE Detect(_, _, _, _)
Detect(categories_found, k, headline, full_text) ==
    IF k > Len(DetectionOrder) THEN categories_found
    ELSE LET cat == DetectionOrder[k]
             found == IF search(TriggerTerms(cat),
                                SearchedText(cat, headline, full_text))
                      THEN AppendIfAbsent(categories_found, cat)
                      ELSE categories_found
         IN  Detect(found, k + 1, headline, full_text)

\* ','.join(names): the characters of the string, a name or a comma each.
RECURSIVE join(_)
join(names) ==
    IF Len(names) <= 1 THEN names
    ELSE <<names[1], ",">> \o join(Tail(names))

\* The body of the for loop over the rows: the detected_category of a row.
DetectedCategory(requested, row_text, row_body_text) ==
    LET categories_found == IF requested # "" THEN <<requested>> ELSE <<>>
        headline == lower(row_text)
        body == lower(row_body_text)
        full_text == headline \o body
    IN  join(Detect(categories_found, 1, headline, full_text))

\* The categories fetch_headlines is called with: those of the command
\* line, one the patterns do not know, and none.
Categories == Range(DetectionOrder) \cup {"TOP", ""}

\* fetch_headlines, from the cleaned rows to the detected_category column,
\* for one row.
DetectCategories ==
    /\ ~classified
    /\ \E c \in Categories :
        /\ category' = c
        /\ detected_category' = DetectedCategory(c, text, body_text)
    /\ classified' = TRUE
    /\ UNCHANGED <<text, body_text, analyses>>
    /\ UNCHANGED <<dbVars, srcVars, runVars, histVars, netVars>>

\* A row of a page before its categories are detected.
InitClassify ==
    /\ rows = <<>>
    /\ db_is_connected = FALSE
    /\ ret = [op |-> "init", story_id |-> Missing, value |-> FALSE,
              raised |-> FALSE, existed |-> FALSE, counts |-> NoCounts]
    /\ fetch_log = <<>>
    /\ similarity_enabled = FALSE
    /\ ts = [i \in Items |-> 1]
    /\ srcMode = "arbitrary"
    /\ RunIdle
    /\ NetIdle
    /\ is_connected = TRUE
    /\ category = ""
    /\ text \in SeqsUpTo(Vocabulary, MaxHeadline)
    /\ body_text \in SeqsUpTo(Vocabulary, MaxBody)
    /\ classified = FALSE
    /\ detected_category = <<>>
    /\ analyses = <<>>

NextClassify == DetectCategories

SpecClassify == InitClassify /\ [][NextClassify]_vars

-----------------------------------------------------------------------------
(* NewsFetcher: language, urgency and priority score of a row *)

\* The number of times one row is analysed.
MaxRuns == 2

\* The words of the rows that are analysed.
AnalysisVocabulary == {"breaking", "important", "prices", "flashlight", "fx"}

\* The keywords that occur in a word as substrings ('keyword in text').
KeywordsIn(w) == IF w = "flashlight" THEN {"flashlight", "flash"} ELSE {w}

\* keyword in words, for a keyword without blanks.
Occurs(keyword, words) ==
    \E i \in DOMAIN words : keyword \in KeywordsIn(words[i])

\* len(' '.join(words)) for words without blanks around them.
RECURSIVE CharCount(_)
CharCount(words) ==
    IF words = <<>> THEN 0
    ELSE Len(Head(words)) + (IF Len(words) > 1 THEN 1 ELSE 0)
         + CharCount(Tail(words))

\* The languages whose profile holds a word.
LanguagesOf(w) == IF w = "important" THEN {"en", "fr"} ELSE {"en"}

\* langdetect.detect(text): the module never sets DetectorFactory.seed, so
\* the detector samples the text at random and may answer any language that
\* fits all of its words.
detect(words) ==
    {l \in {"en", "fr"} : \A i \in DOMAIN words : l \in LanguagesOf(words[i])}

\* _detect_language: the codes it may return.
detect_language(words) ==
    IF words = <<>> \/ CharCount(words) < 3 THEN {"unknown"}
    ELSE IF detect(words) = {} THEN {"unknown"}
    ELSE detect(words)

high_keywords ==
    {"breaking", "urgent", "alert", "flash", "emergency", "sokuhou",
     "kinkyuu"}

medium_keywords == {"important", "significant", "major", "juuyou", "juudai"}

\* _detect_urgency
detect_urgency(headline, body) ==
    LET words == lower(headline \o body)
    IN  IF \E k \in high_keywords : Occurs(k, words) THEN 1
        ELSE IF \E k \in medium_keywords : Occurs(k, words) THEN 2
        ELSE 3

\* news_filtering.priority_scoring.keywords of the configuration in use.
keywords_config ==
    {[level |-> "high", score |-> 10, terms |-> {"breaking", "flash"}],
     [level |-> "low", score |-> 1, terms |-> {"prices", "none"}]}

RECURSIVE SumScores(_)
SumScores(hits) ==
    IF hits = {} THEN 0
    ELSE LET h == CHOOSE h \in hits : TRUE
         IN  h.score + SumScores(hits \ {h})

\* The score loop of _calculate_priority_scores for one row: every term of
\* every level found in the text adds the score of its level; str() of a
\* body that is None is 'None'.
priority_score(headline, body) ==
    LET text_to_check ==
            lower(headline) \o (IF body = <<>> THEN <<"none">> ELSE lower(body))
        terms == UNION {{[level |-> c.level, term |-> t, score |-> c.score] :
                           t \in c.terms} : c \in keywords_config}
    IN  SumScores({h \in terms : Occurs(h.term, text_to_check)})

\* One analysis of the row: fetch_headlines gives it its detected_category
\* and priority_score, create_news_articles its language and urgency_level.
AnalyseRow ==
    /\ Len(analyses) < MaxRuns
    /\ \E language \in detect_language(text) :
        analyses' = Append(analyses,
            [category |-> DetectedCategory(category, text, body_text),
             language |-> language,
             urgency_level |-> detect_urgency(text, body_text),
             priority_score |-> priority_score(text, body_text)])
    /\ UNCHANGED <<category, text, body_text, classified, detected_category>>
    /\ UNCHANGED <<dbVars, srcVars, runVars, histVars, netVars>>

\* A row with a headline, fetched with some category, before its analysis.
InitAnalyse ==
    /\ rows = <<>>
    /\ db_is_connected = FALSE
    /\ ret = [op |-> "init", story_id |-> Missing, value |-> FALSE,
              raised |-> FALSE, existed |-> FALSE, counts |-> NoCounts]
    /\ fetch_log = <<>>
    /\ similarity_enabled = FALSE
    /\ ts = [i \in Items |-> 1]
    /\ srcMode = "arbitrary"
    /\ RunIdle
    /\ NetIdle
    /\ is_connected = TRUE
    /\ category \in Categories
    /\ text \in SeqsUpTo(AnalysisVocabulary, MaxHeadline) \ {<<>>}
    /\ body_text \in SeqsUpTo(AnalysisVocabulary, MaxBody)
    /\ classified = FALSE
    /\ detected_category = <<>>
    /\ analyses = <<>>

NextAnalyse == AnalyseRow

SpecAnalyse == InitAnalyse /\ [][NextAnalyse]_vars

-----------------------------------------------------------------------------
(* NewsFetcher: the remote calls, their rate limit and the retries *)

\* Largest max_retries a caller passes (0 stands for None).
MaxAttempts == 3
\* Most rows of a page of headlines, and most articles without a body that
\* update_missing_bodies finds.
MaxPageRows == 2

\* eikon.rate_limit_delay, eikon.body_fetch_delay, eikon.retry_delay_seconds
\* (whole seconds).
rate_limit_delay == 1
body_fetch_delay == 5
retry_delay_seconds == 2

\* time.sleep(seconds), and a call of the eikon library.
Sleep(why, seconds) == [event |-> "sleep", why |-> why, seconds |-> seconds]
RemoteCall(method) == [event |-> "call", why |-> method, seconds |-> 0]

\* _apply_rate_limit(is_body_fetch)
apply_rate_limit(is_body_fetch) ==
    <<Sleep("rate_limit", IF is_body_fetch THEN body_fetch_delay
                          ELSE rate_limit_delay)>>

\* _fetch_news_bodies for n rows: a wait and a get_news_story per row,
\* whether the story comes or not.
RECURSIVE fetch_news_bodies(_)
fetch_news_bodies(n) ==
    IF n = 0 THEN <<>>
    ELSE apply_rate_limit(TRUE) \o <<RemoteCall("get_news_story")>>
         \o fetch_news_bodies(n - 1)

\* How a call of fetch_headlines can go: an exception before params is
\* built (the handler, which reads params, then raises itself); an
\* exception of get_news_headlines; no rows; n >= 1 rows.
AttemptOutcomes == {"raised_early", "remote_error", "empty", "data"}

\* A fetcher that goes on without a connection.
RefusesNever(connected) == FALSE

\* if not self.is_connected: return None
Refuses(connected) == ~connected

\* fetch_headlines: what it returns ("none" for None), whether it raises,
\* and what it waited for and sent.
fetch_headlines(connected, outcome, fetch_body, n) ==
    LET headline_call == apply_rate_limit(FALSE)
                         \o <<RemoteCall("get_news_headlines")>>
    IN  CASE Refuses(connected) ->
               [result |-> "none", raises |-> FALSE, events |-> <<>>]
          [] outcome = "raised_early" ->
               [result |-> "none", raises |-> TRUE, events |-> <<>>]
          [] outcome = "remote_error" ->
               [result |-> "none", raises |-> FALSE, events |-> headline_call]
          [] outcome = "empty" ->
               [result |-> "empty", raises |-> FALSE, events |-> headline_call]
          [] outcome = "data" ->
               [result |-> "data", raises |-> FALSE,
                events |-> headline_call
                           \o IF fetch_body THEN fetch_news_bodies(n)
                              ELSE <<>>]

RECURSIVE Pow2(_)
Pow2(n) == IF n = 0 THEN 1 ELSE 2 * Pow2(n - 1)

\* delay = retry_delay * (2 ** attempt)
backoff(attempt) == retry_delay_seconds * Pow2(attempt)

\* A result that is returned only if it has rows.
ReturnedIfRows(res) == res = "data"

\* if result is not None: return result
Returned(res) == res # "none"

\* A loop that goes round once more.
LastAttemptLate(attempt, max_retries) == attempt >= max_retries

\* attempt is the last value of range(max_retries).
LastAttempt(attempt, max_retries) == attempt >= max_retries - 1

\* fetch_headlines_with_retry(max_retries = asked, fetch_body = ...) up to
\* its loop.
CallWithRetry ==
    /\ retry.phase = "idle"
    /\ \E asked \in 0..MaxAttempts, fetch_body \in BOOLEAN :
        retry' = [phase |-> "loop",
                  max_retries |-> IF asked # 0 THEN asked
                                  ELSE max_retries_default,
                  fetch_body |-> fetch_body, attempt |-> 0,
                  result |-> "none"]
    /\ UNCHANGED <<is_connected, outcomes, net_events, sched>>
    /\ UNCHANGED <<dbVars, srcVars, runVars, histVars, clsVars>>

\* One pass through the for loop of fetch_headlines_with_retry.
Attempt ==
    /\ retry.phase = "loop"
    /\ \E outcome \in AttemptOutcomes, n \in 1..MaxPageRows :
       \E r \in {fetch_headlines(is_connected, outcome, retry.fetch_body,
                                 n)} :
       \E last \in {LastAttempt(retry.attempt, retry.max_retries)} :
           /\ outcomes' = Append(outcomes, outcome)
           /\ IF ~r.raises /\ Returned(r.result)
              THEN /\ retry' = [retry EXCEPT !.phase = "returned",
                                             !.result = r.result]
                   /\ net_events' = net_events \o r.events
              ELSE /\ retry' = IF last
                               THEN [retry EXCEPT !.phase = "returned",
                                                  !.result = "none"]
                               ELSE [retry EXCEPT !.attempt = @ + 1]
                   /\ net_events' =
                        net_events \o r.events
                        \o IF r.raises /\ ~last
                           THEN <<Sleep("backoff", backoff(retry.attempt))>>
                           ELSE <<>>
    /\ UNCHANGED <<is_connected, sched>>
    /\ UNCHANGED <<dbVars, srcVars, runVars, histVars, clsVars>>

\* update_missing_bodies: the loop over the n articles without a body.
RECURSIVE update_bodies(_)
update_bodies(n) ==
    IF n = 0 THEN <<>>
    ELSE apply_rate_limit(FALSE) \o <<RemoteCall("get_news_story")>>
         \o update_bodies(n - 1)

UpdateMissingBodies ==
    /\ retry.phase = "idle"
    /\ \E n \in 0..MaxPageRows : net_events' = net_events \o update_bodies(n)
    /\ retry' = [retry EXCEPT !.phase = "bodies_updated"]
    /\ UNCHANGED <<is_connected, outcomes, sched>>
    /\ UNCHANGED <<dbVars, srcVars, runVars, histVars, clsVars>>

\* A connected fetcher (or the update_missing_bodies script) before its
\* first call.
InitRemote ==
    /\ rows = <<>>
    /\ db_is_connected = TRUE
    /\ ret = [op |-> "init", story_id |-> Missing, value |-> FALSE,
              raised |-> FALSE, existed |-> FALSE, counts |-> NoCounts]
    /\ fetch_log = <<>>
    /\ similarity_enabled = FALSE
    /\ ts = [i \in Items |-> 1]
    /\ srcMode = "arbitrary"
    /\ RunIdle
    /\ NetIdle
    /\ is_connected = TRUE
    /\ NoRow

NextRemote ==
    \/ CallWithRetry
    \/ Attempt
    \/ UpdateMissingBodies

SpecRemote == InitRemote /\ [][NextRemote]_vars

-----------------------------------------------------------------------------
(* NewsScheduler.run and the monitor loop of fetch_since_latest *)

\* Most jobs a loop runs.
MaxJobs == 3

\* "scheduler": NewsScheduler.run, whose signal handler calls stop();
\* "monitor": the while True loop of fetch_since_latest, which installs no
\* handler, so that SIGINT raises KeyboardInterrupt where the program is.
Loops == {"scheduler", "monitor"}

\* The places of a job (one fetch_and_store_news run) at which the process
\* can be: in the remote call, and between its return and the completion
\* of the fetch-log row.
InJob == {"fetching", "storing"}

\* except Exception: the handlers of the job and of fetch_and_store_news.
JobHandlers == {"Exception"}

\* An except clause catches the classes it names; KeyboardInterrupt is a
\* BaseException and no Exception.
Catches(handlers, err) ==
    \/ err \in handlers
    \/ "Exception" \in handlers /\ err # "KeyboardInterrupt"

\* run() up to its loop / fetch_since_latest(monitor=True) up to its loop.
StartLoop ==
    /\ sched.pc = "idle"
    /\ \E l \in Loops : sched' = [sched EXCEPT !.loop = l, !.pc = "loop"]
    /\ UNCHANGED <<is_connected, retry, outcomes, net_events>>
    /\ UNCHANGED <<dbVars, srcVars, runVars, histVars, clsVars>>

\* schedule.run_pending() with a job due: the job enters
\* fetch_and_store_news, which starts its fetch-log row and calls the
\* remote source.
JobStart ==
    /\ sched.pc = "loop"
    /\ sched.loop = "scheduler" => ~sched.should_stop
    /\ sched.jobs < MaxJobs
    /\ \E started \in {start_fetch_log(fetch_log, db_is_connected, FALSE)} :
        /\ fetch_log' = started.log
        /\ sched' = [sched EXCEPT !.pc = "fetching", !.log_id = started.id]
    /\ UNCHANGED <<rows, db_is_connected, ret, similarity_enabled>>
    /\ UNCHANGED <<is_connected, retry, outcomes, net_events>>
    /\ UNCHANGED <<srcVars, runVars, histVars, clsVars>>

\* The remote call of the job returns, with rows or without.
JobFetched ==
    /\ sched.pc = "fetching"
    /\ \E fetched \in {"none", "data"} :
        sched' = [sched EXCEPT !.pc = "storing", !.fetched = fetched]
    /\ UNCHANGED <<is_connected, retry, outcomes, net_events>>
    /\ UNCHANGED <<dbVars, srcVars, runVars, histVars, clsVars>>

\* The rest of fetch_and_store_news: the fetch-log row is completed and
\* the job returns to the loop.
JobDone ==
    /\ sched.pc = "storing"
    /\ fetch_log' = complete_fetch_log(fetch_log, db_is_connected,
                                       sched.log_id, DefaultCounts,
                                       sched.fetched = "none", FALSE).log
    /\ sched' = [sched EXCEPT !.pc = "loop", !.log_id = 0,
                              !.fetched = "none", !.jobs = @ + 1]
    /\ UNCHANGED <<rows, db_is_connected, ret, similarity_enabled>>
    /\ UNCHANGED <<is_connected, retry, outcomes, net_events>>
    /\ UNCHANGED <<srcVars, runVars, histVars, clsVars>>

\* SIGINT arrives.  The scheduler's handler sets should_stop and the
\* program goes on where it was.  In the monitor loop KeyboardInterrupt is
\* raised where the program is: inside a job it passes every handler that
\* does not catch it and ends the loop.
StopSignal ==
    /\ sched.pc \in InJob \cup {"loop"}
    /\ sched' =
        IF sched.loop = "scheduler"
        THEN [sched EXCEPT !.should_stop = TRUE]
        ELSE IF sched.pc \in InJob
                /\ Catches(JobHandlers, "KeyboardInterrupt")
        THEN [sched EXCEPT !.pc = "storing", !.fetched = "none"]
        ELSE [sched EXCEPT !.pc = "stopped"]
    /\ UNCHANGED <<is_connected, retry, outcomes, net_events>>
    /\ UNCHANGED <<dbVars, srcVars, runVars, histVars, clsVars>>

\* while not self.should_stop: the scheduler leaves its loop.
LoopExit ==
    /\ sched.pc = "loop"
    /\ sched.loop = "scheduler"
    /\ sched.should_stop
    /\ sched' = [sched EXCEPT !.pc = "stopped"]
    /\ UNCHANGED <<is_connected, retry, outcomes, net_events>>
    /\ UNCHANGED <<dbVars, srcVars, runVars, histVars, clsVars>>

NextStop ==
    \/ StartLoop
    \/ JobStart
    \/ JobFetched
    \/ JobDone
    \/ StopSignal
    \/ LoopExit

\* An initialised application before it enters one of the loops.
SpecStop == InitRemote /\ [][NextStop]_vars

-----------------------------------------------------------------------------
(* Calls on a fetcher and a manager, connected or not *)

\* NewsFetcher.connect: the key is set, or an exception says why not.
ConnectFetcher ==
    /\ \E ok \in BOOLEAN :
        /\ is_connected' = ok
        /\ ret' = [op |-> "fetcher_connect", value |-> ok]
    /\ UNCHANGED <<retry, outcomes, net_events, sched>>
    /\ UNCHANGED <<rows, db_is_connected, fetch_log, similarity_enabled>>
    /\ UNCHANGED <<srcVars, runVars, histVars, clsVars>>

\* One call of fetch_headlines that gets headlines of one article if it
\* gets any (on a connected fetcher: the first call).
FetchHeadlines ==
    /\ is_connected => net_events = <<>>
    /\ \E outcome \in AttemptOutcomes, fetch_body \in BOOLEAN :
       \E r \in {fetch_headlines(is_connected, outcome, fetch_body, 1)} :
           /\ net_events' = net_events \o r.events
           /\ ret' = [op |-> "fetch_headlines", value |-> r.result,
                      raised |-> r.raises]
    /\ UNCHANGED <<is_connected, retry, outcomes, sched>>
    /\ UNCHANGED <<rows, db_is_connected, fetch_log, similarity_enabled>>
    /\ UNCHANGED <<srcVars, runVars, histVars, clsVars>>

\* fetch_headlines_paginated and fetch_headlines_backfill on a fetcher that
\* is not connected: None is returned before anything else is done.
FetchRefused ==
    /\ Refuses(is_connected)
    /\ \E method \in {"fetch_headlines_paginated",
                       "fetch_headlines_backfill"} :
        ret' = [op |-> method, value |-> "none", raised |-> FALSE]
    /\ UNCHANGED <<is_connected, retry, outcomes, net_events, sched>>
    /\ UNCHANGED <<rows, db_is_connected, fetch_log, similarity_enabled>>
    /\ UNCHANGED <<srcVars, runVars, histVars, clsVars>>

\* The articles handed over in these calls: all of them have the same
\* headline or none.
CallArticles == {article \in Articles : article.headline \in {"", "h1"}}

\* insert_news_article(article), with what it returns.
CallInsert ==
    /\ \E article \in CallArticles, fault \in BOOLEAN :
       \E r \in {insert_news_article(rows, db_is_connected, article, fault)} :
           /\ Len(r.rows) <= MaxRows
           /\ rows' = r.rows
           /\ ret' = [op |-> "insert", value |-> r.value]
    /\ UNCHANGED <<db_is_connected, fetch_log, similarity_enabled>>
    /\ UNCHANGED notDbVars

\* bulk_insert_news_articles(articles) in a session that does not fail,
\* with its success and inserted_count.
CallBulkInsert ==
    /\ \E articles \in SeqsUpTo(CallArticles, MaxBulk) :
       \E r \in {bulk_insert_news_articles(rows, db_is_connected, articles,
                                           {}, {})} :
           /\ Len(rows) + Len(articles) <= MaxRows
           /\ rows' = r.rows
           /\ ret' = [op |-> "bulk_insert", value |-> r.success,
                      inserted_count |-> r.inserted_count]
    /\ UNCHANGED <<db_is_connected, fetch_log, similarity_enabled>>
    /\ UNCHANGED notDbVars

\* start_fetch_log(...), with the id it returns.
CallStartFetchLog ==
    /\ Len(fetch_log) < MaxLog
    /\ \E fault \in BOOLEAN :
       \E started \in {start_fetch_log(fetch_log, db_is_connected, fault)} :
           /\ fetch_log' = started.log
           /\ ret' = [op |-> "start_fetch_log", log_id |-> started.id]
    /\ UNCHANGED <<rows, db_is_connected, similarity_enabled>>
    /\ UNCHANGED notDbVars

\* complete_fetch_log(log_id) or complete_fetch_log(log_id,
\* error_message = ...), with what it returns.
CallCompleteFetchLog ==
    /\ \E id \in 1..(MaxLog + 1), error \in BOOLEAN, fault \in BOOLEAN :
       \E completed \in {complete_fetch_log(fetch_log, db_is_connected, id,
                                            DefaultCounts, error, fault)} :
           /\ fetch_log' = completed.log
           /\ ret' = [op |-> "complete_fetch_log",
                      value |-> completed.value]
    /\ UNCHANGED <<rows, db_is_connected, similarity_enabled>>
    /\ UNCHANGED notDbVars

\* The similarity check is off (the default of DUPLICATE_CHECK_ENABLED is
\* not read by the store calls made here).
InitConn ==
    /\ InitStore
    /\ similarity_enabled = FALSE

NextConn ==
    \/ Connect
    \/ ConnectFetcher
    \/ CallInsert
    \/ CallBulkInsert
    \/ CallStartFetchLog
    \/ CallCompleteFetchLog
    \/ FetchHeadlines
    \/ FetchRefused

\* A fetcher and a manager after construction, and the calls made on them.
SpecConn == InitConn /\ [][NextConn]_vars

-----------------------------------------------------------------------------
(* Properties of the store (SpecStore) *)

\* C1: after any sequence of insert_news_article, bulk_insert_news_articles,
\* update_news_article and delete_news_article calls the table holds at most
\* one row per story_id; an insert of a story_id that is already stored
\* returns False, raises nothing and leaves the table as it was.
C1_UniqueStoryId ==
    /\ [](\A i, j \in DOMAIN rows :
            rows[i].story_id = rows[j].story_id => i = j)
    /\ [][(ret'.op = "insert" /\ ret'.story_id \in StoredIds(rows))
            => (ret'.value = FALSE /\ ~ret'.raised /\ rows' = rows)]_vars

\* An insert of a stored story_id was made on an open connection and refused.
C1_Witness ==
    /\ ret.op = "insert"
    /\ ret.existed
    /\ db_is_connected
    /\ ret.value = FALSE
    /\ ret.story_id \in StoredIds(rows)

-----------------------------------------------------------------------------
(* Properties of the orchestrators (SpecRun, FairSpecRun) *)

\* The run was not cut short by max_pages.
Untruncated == max_pages = 0 \/ page_count <= max_pages

\* The source honours the range it is asked for.
SourceHonoursRange == srcMode # "arbitrary"

\* C2: a run of fetch_headlines_paginated, fetch_headlines_backfill or
\* fetch_and_store_news_backfill with max_pages = N >= 1 calls
\* fetch_headlines_with_retry at most N times, whatever the source answers.
C2_AtMostMaxPagesFetches == max_pages # 0 => fetch_calls <= max_pages

\* A run against a source that answers anything was ended by the max_pages
\* test after max_pages >= 2 page fetches.
C2_Witness ==
    /\ phase = "done"
    /\ srcMode = "arbitrary"
    /\ max_pages >= 2
    /\ page_count = max_pages + 1
    /\ fetch_calls = max_pages

\* C3: with max_pages unset and a source that only returns items of the
\* requested range, every pass that stays in the loop moves the cursor by at
\* least one second toward the fixed boundary without reaching it (forward
\* and below end_date in the pagination loop, backward and above start_date
\* in the backfill loops), and the run ends.
C3_LoopsTerminate ==
    /\ [][(/\ phase = "loop" /\ phase' = "loop"
           /\ max_pages = 0 /\ SourceHonoursRange)
            => IF mode = "paginated"
               THEN cursor' >= cursor + OneSecond /\ cursor' < end_date
               ELSE cursor' <= cursor - OneSecond /\ cursor' > start_date]_vars
    /\ (phase = "loop" /\ max_pages = 0 /\ SourceHonoursRange)
            ~> (phase = "done")

\* A run without max_pages against a source that honours the range ended
\* after the loop was passed at least twice.
C3_Witness ==
    /\ phase = "done"
    /\ max_pages = 0
    /\ SourceHonoursRange
    /\ fetch_calls >= 2
    /\ cursor # (IF mode = "paginated" THEN start_date ELSE end_date)

\* C4: against a source that answers with the per_page most recent items of
\* the requested range, a fetch_headlines_paginated run that max_pages does
\* not cut short returns every story published in [start_date, end_date].
C4_PaginatedReturnsAll ==
    (/\ phase = "done" /\ mode = "paginated"
     /\ srcMode = "newest_first" /\ Untruncated)
        => InRange(start_date, end_date) \subseteq Ids(result.frame)

\* C5: against a source that answers with the per_page most recent items of
\* the requested range, a fetch_and_store_news_backfill run that max_pages
\* does not cut short stores every story published in [start_date, end_date]
\* exactly once, whatever the timestamps of the stories are.
C5_BackfillStoresAllOnce ==
    (/\ phase = "done" /\ mode = "backfill"
     /\ srcMode = "newest_first" /\ Untruncated)
        => \A s \in InRange(start_date, end_date) :
              Cardinality({i \in DOMAIN rows : rows[i].story_id = s}) = 1

\* C6: in the two backfill loops every page after the first is requested
\* from start_date to one second before the oldest timestamp of the rows
\* kept of the previous page, and only if that end bound lies after
\* start_date; against a source that honours the range these rows hold the
\* oldest timestamp of the whole previous page.
C6_BackfillRequests ==
    [][(/\ mode \in {"backfill_fetch", "backfill"}
        /\ fetch_calls >= 1
        /\ fetch_calls' = fetch_calls + 1)
         => /\ last_req'.lo = start_date
            /\ last_req'.hi = last_page.oldest_new - OneSecond
            /\ last_req'.hi > start_date
            /\ SourceHonoursRange
                 => last_page.oldest_new = last_page.oldest]_vars

\* A backfill run requested a second page, which ends before the first.
C6_Witness ==
    /\ mode \in {"backfill_fetch", "backfill"}
    /\ SourceHonoursRange
    /\ fetch_calls = 2
    /\ last_req.lo = start_date
    /\ last_req.hi < end_date

\* C7: a fetch_and_store_news_paginated run whose first page holds no item
\* reports success and leaves its fetch-log row "completed".
C7_EmptyFirstPageSucceeds ==
    (/\ phase = "done" /\ mode = "paginated"
     /\ SourceHonoursRange
     /\ fetch_calls = 1 /\ last_page.count = 0)
        => /\ result.success
           /\ log_id # 0 => fetch_log[log_id].status = "completed"

\* C8: within one run no story id is handed to bulk_insert_news_articles
\* more than once, and the frame a fetcher returns holds no story id twice,
\* whether the source repeats an id inside a page or on a later page.
C8_ForwardedOnce ==
    /\ \A i \in Items : forwarded[i] <= 1
    /\ \A i, j \in DOMAIN result.frame :
          result.frame[i].story_id = result.frame[j].story_id => i = j

\* A run that stored stories ended on a page that repeated a story id.
C8_Witness ==
    /\ phase = "done"
    /\ fetch_calls >= 2
    /\ last_page.repeated
    /\ \E i \in Items : forwarded[i] = 1 /\ i \in seen_story_ids

-----------------------------------------------------------------------------
(* Properties of the category detection (SpecClassify) *)

\* The joined string is names separated by single commas.
WellJoined(joined) ==
    \A i \in DOMAIN joined : (i % 2 = 0) <=> (joined[i] = ",")

\* The names of a joined string, in order.
Names(joined) == [k \in 1..((Len(joined) + 1) \div 2) |-> joined[2 * k - 1]]

\* A trigger term of cat is found in the lowered headline plus body.
InHeadlineOrBody(cat) ==
    search(TriggerTerms(cat), lower(text) \o lower(body_text))

\* A trigger term of cat is found in the lowered headline.
InHeadline(cat) == search(TriggerTerms(cat), lower(text))

\* C9: the detected_category of a row fetched with category = C starts with
\* C and names no category twice, whether or not a pattern matches.
C9_RequestedFirstNoRepeat ==
    (classified /\ category # "")
        => /\ detected_category # <<>>
           /\ detected_category[1] = category
           /\ WellJoined(detected_category)
           /\ \A i, j \in DOMAIN Names(detected_category) :
                 Names(detected_category)[i] = Names(detected_category)[j]
                    => i = j

\* A row was fetched with a category that its text triggers as well, next
\* to another one.
C9_Witness ==
    /\ classified
    /\ category # ""
    /\ InHeadlineOrBody(category)
    /\ \E c \in Range(DetectionOrder) \ {category} : InHeadlineOrBody(c)

\* C10, read for every category alike: without a requested category the
\* detected_category names exactly the categories with a trigger term in
\* the headline plus body, in detection order.
C10_AllFromHeadlineAndBody ==
    (classified /\ category = "")
        => /\ WellJoined(detected_category)
           /\ Names(detected_category)
                 = SelectSeq(DetectionOrder, InHeadlineOrBody)

\* C10, with NY_MARKET read from the headline: without a requested category
\* the detected_category names exactly the categories with a trigger term
\* in the headline plus body, in detection order, but for NY_MARKET, which
\* is named when its term is in the headline; "Copper zinc" gives
\* COPPER,ZINC and no match gives the empty string.
C10_HeadlineOnlyForNyMarket ==
    (classified /\ category = "")
        => /\ WellJoined(detected_category)
           /\ LET Matches(cat) == IF cat = "NY_MARKET" THEN InHeadline(cat)
                                  ELSE InHeadlineOrBody(cat)
              IN  Names(detected_category)
                     = SelectSeq(DetectionOrder, Matches)
           /\ (text = <<"Copper", "zinc">> /\ body_text = <<>>)
                 => detected_category = <<"COPPER", ",", "ZINC">>
           /\ (\A cat \in Range(DetectionOrder) : ~InHeadlineOrBody(cat))
                 => detected_category = <<>>

\* A row whose body alone holds the NY market summary title was classified
\* without a requested category, and two other categories were detected.
C10_Witness ==
    /\ classified
    /\ category = ""
    /\ InHeadlineOrBody("NY_MARKET")
    /\ ~InHeadline("NY_MARKET")
    /\ Len(Names(detected_category)) = 2

-----------------------------------------------------------------------------
(* Properties of the row analysis (SpecAnalyse) *)

\* C11: two analyses of the same headline and body with the same
\* configuration and requested category give the same category list,
\* language code, urgency level and priority score.
C11_SameTextSameOutputs ==
    \A i, j \in DOMAIN analyses : analyses[i] = analyses[j]

-----------------------------------------------------------------------------
(* Properties of the fetch log *)

C13_CompleteFetchLog ==
    [][(ret'.op = "complete_fetch_log" /\ db_is_connected /\ ~ret'.raised)
        => IF ret'.log_id \in DOMAIN fetch_log
           THEN /\ ret'.value
                /\ fetch_log' = [fetch_log EXCEPT ![ret'.log_id] =
                      [status |-> IF ret'.error THEN "failed"
                                  ELSE "completed",
                       ended |-> TRUE,
                       articles_fetched |-> ret'.counts.articles_fetched,
                       articles_inserted |-> ret'.counts.articles_inserted,
                       articles_updated |-> ret'.counts.articles_updated,
                       api_calls |-> ret'.counts.api_calls,
                       error |-> ret'.error]]
           ELSE /\ ~ret'.value
                /\ fetch_log' = fetch_log]_vars

\* A running row was completed with an error message and counts that all
\* differ, next to a row that is still running.
C13_Witness ==
    /\ ret.op = "complete_fetch_log"
    /\ ret.value
    /\ ret.error
    /\ ret.counts = Counts(4, 3, 2, 1)
    /\ fetch_log[ret.log_id].status = "failed"
    /\ \E i \in DOMAIN fetch_log : fetch_log[i].status = "running"

-----------------------------------------------------------------------------
(* Properties of the remote calls (SpecRemote) *)

\* The calls of method among the events.
CallsOf(method) ==
    {i \in DOMAIN net_events : net_events[i] = RemoteCall(method)}

\* C14: when an attempt of fetch_headlines_with_retry fails and another
\* follows, the last thing the engine does before the next attempt is to
\* wait retry_delay * 2^(k-1) seconds, k being the number of the failed
\* attempt, whether fetch_headlines raised or the remote call did.
C14_BackoffBeforeNextAttempt ==
    [][(/\ retry.phase = "loop" /\ retry'.phase = "loop"
        /\ retry'.attempt = retry.attempt + 1)
        => /\ net_events' # <<>>
           /\ net_events'[Len(net_events')]
                = Sleep("backoff", retry_delay_seconds * Pow2(retry.attempt))
       ]_vars

\* C15: fetch_headlines_with_retry makes at most max_retries attempts and
\* as many remote headline calls at most; once it has returned, its result
\* is that of its last attempt if that attempt succeeded (with rows or
\* without), every earlier attempt having failed, and otherwise None after
\* exactly max_retries failed attempts; it leaves its loop by no other way
\* than a return.
C15_AtMostMaxRetries ==
    /\ retry.phase \in {"loop", "returned"}
        => /\ Len(outcomes) <= retry.max_retries
           /\ Cardinality(CallsOf("get_news_headlines")) <= retry.max_retries
           /\ \A i \in DOMAIN outcomes :
                 i < Len(outcomes)
                    => outcomes[i] \in {"raised_early", "remote_error"}
    /\ retry.phase = "loop" => Len(outcomes) = retry.attempt
    /\ retry.phase = "returned"
        => IF outcomes[Len(outcomes)] \in {"empty", "data"}
           THEN retry.result = outcomes[Len(outcomes)]
           ELSE retry.result = "none" /\ Len(outcomes) = retry.max_retries

\* A call with max_retries = 3 returned rows at its third attempt, after an
\* attempt that raised and one whose remote call failed.
C15_Witness ==
    /\ retry.phase = "returned"
    /\ retry.max_retries = 3
    /\ outcomes = <<"raised_early", "remote_error", "data">>
    /\ retry.result = "data"

\* C16: an attempt whose remote headline call succeeds with no item is the
\* last attempt of the call: fetch_headlines_with_retry returns the empty
\* result, and the headline call of that attempt is the last thing it did.
C16_EmptyResultReturned ==
    \A i \in DOMAIN outcomes :
        outcomes[i] = "empty"
            => /\ i = Len(outcomes)
               /\ retry.phase = "returned"
               /\ retry.result = "empty"
               /\ net_events[Len(net_events)]
                    = RemoteCall("get_news_headlines")

\* A call that could have tried three times returned no rows after one
\* attempt.
C16_Witness ==
    /\ retry.phase = "returned"
    /\ retry.max_retries = 3
    /\ outcomes = <<"empty">>
    /\ retry.result = "empty"
    /\ Cardinality(CallsOf("get_news_headlines")) = 1

\* C17: every remote call comes directly after a rate-limit wait of its
\* kind: rate_limit_delay before get_news_headlines, body_fetch_delay
\* before get_news_story.
C17_RateLimitBeforeEachCall ==
    \A i \in DOMAIN net_events :
        net_events[i].event = "call"
            => /\ i > 1
               /\ net_events[i - 1]
                    = Sleep("rate_limit",
                            IF net_events[i].why = "get_news_story"
                            THEN body_fetch_delay ELSE rate_limit_delay)

-----------------------------------------------------------------------------
(* Properties of the bulk insert (SpecStore) *)

\* C18: after a bulk insert on a connected manager, failed_count is the
\* number of articles that were neither inserted nor turned down because
\* their story_id was stored already: a duplicate on insert is not counted
\* as failed.
C18_DuplicateNotCountedFailed ==
    (ret.op = "bulk_insert" /\ ret.value)
        => ret.counts.failed_count
             = ret.history.attempted - ret.history.insertable
               - ret.history.duplicates

-----------------------------------------------------------------------------
(* Properties of the loops (SpecStop) *)

-----------------------------------------------------------------------------
(* Properties of the exits of a run (SpecRun) *)

\* The latest page had rows and none of them carried versionCreated.
LastPageWithoutTimestamp == last_page.count > 0 /\ last_page.oldest = 0

\* C21: a paginated or backfill run whose latest page was full and carried
\* no versionCreated ends as failed (its result says so and its fetch-log
\* row is "failed" with an error message), and the rows stored before that
\* page are still in the table.
C21_NoTimestampFailsRun ==
    (/\ phase = "done" /\ mode \in {"paginated", "backfill"}
     /\ LastPageWithoutTimestamp /\ last_page.count = per_page)
        => /\ ~result.success
           /\ log_id # 0 => /\ fetch_log[log_id].status = "failed"
                            /\ fetch_log[log_id].error
           /\ Len(rows) >= totals.stored

-----------------------------------------------------------------------------
(* Properties of the connection flags (SpecConn) *)

StoreCalls ==
    {"insert", "bulk_insert", "start_fetch_log", "complete_fetch_log"}

FetchCalls ==
    {"fetch_headlines", "fetch_headlines_paginated",
     "fetch_headlines_backfill"}

\* What a call that has failed returns: False, None, or the counts of a
\* bulk insert that inserted nothing.
FailureValue(r) ==
    CASE r.op \in {"insert", "complete_fetch_log"} -> r.value = FALSE
      [] r.op = "bulk_insert" ->
            r.value = FALSE /\ r.inserted_count = 0
      [] r.op = "start_fetch_log" -> r.log_id = 0
      [] r.op \in FetchCalls -> r.value = "none" /\ ~r.raised

\* C22: both is_connected flags are False after construction; a connect()
\* leaves its flag True if it succeeded and False if it failed; a call of
\* insert_news_article, bulk_insert_news_articles, start_fetch_log or
\* complete_fetch_log on a manager whose flag is False, and a call of
\* fetch_headlines, fetch_headlines_paginated or fetch_headlines_backfill
\* on a fetcher whose flag is False, returns its failure value, sends
\* nothing to the remote source, waits for nothing and changes neither
\* table.
C22_NotConnectedRefuses ==
    /\ ~db_is_connected /\ ~is_connected
    /\ [][/\ ret'.op = "connect" => db_is_connected' = ret'.value
          /\ ret'.op = "fetcher_connect" => is_connected' = ret'.value
          /\ (\/ ~db_is_connected /\ ret'.op \in StoreCalls
              \/ ~is_connected /\ ret'.op \in FetchCalls)
                => /\ FailureValue(ret')
                   /\ rows' = rows
                   /\ fetch_log' = fetch_log
                   /\ net_events' = net_events]_vars

\* With rows in both tables and remote calls made, a fetch was refused
\* after the fetcher had lost its connection.
C22_Witness ==
    /\ ~is_connected
    /\ ret.op = "fetch_headlines"
    /\ ret.value = "none"
    /\ net_events # <<>>
    /\ rows # <<>>
    /\ fetch_log # <<>>

-----------------------------------------------------------------------------
(* Properties of the jobs of one process (SpecJobs) *)

\* C23: the api_calls written to the fetch-log row of a run that ends with
\* success is the number of calls of the remote API that were logged
\* during that run, whatever ran before it in the same process.
C23_ApiCallsOfTheRun ==
    [][(/\ phase = "loop" /\ mode = "single"
        /\ phase' = "done" /\ result'.success /\ log_id # 0)
           => fetch_log'[log_id].api_calls = call_count' - call_count]_vars

-----------------------------------------------------------------------------
(* Properties of the counts of a backfill run (SpecRun) *)

\* C24: when a run of fetch_and_store_news_backfill has ended, the
\* articles_fetched and articles_stored of its result and the
\* articles_fetched and articles_inserted of its fetch-log row are the
\* numbers of articles the run handed to the store and of rows the run
\* inserted, whether the run ended after its loop or in its except clause.
C24_BackfillCountsAreActual ==
    (phase = "done" /\ mode = "backfill")
        => /\ result.articles_fetched = totals.fetched
           /\ result.articles_stored = Len(rows)
           /\ log_id # 0
                => /\ fetch_log[log_id].articles_fetched = totals.fetched
                   /\ fetch_log[log_id].articles_inserted = Len(rows)

-----------------------------------------------------------------------------
(* Properties of the cursor of fetch_headlines_paginated (SpecRun) *)

\* C25: after a page of per_page rows with versionCreated, some of them
\* new, the current_start of fetch_headlines_paginated is the largest
\* versionCreated of the page's new rows plus one second, and the loop has
\* ended if that is end_date or later.
C25_NextStartIsNewestPlusOne ==
    (/\ mode = "paginated" /\ phase \in {"loop", "finish"}
     /\ last_page.count = per_page /\ last_page.newest_new # 0)
        => /\ cursor = last_page.newest_new + OneSecond
           /\ cursor >= end_date => phase = "finish"

-----------------------------------------------------------------------------
(* Properties of the short-page test of fetch_headlines_paginated (SpecRun) *)

\* C26: when the loop of fetch_headlines_paginated ends, without an
\* exception, in the iteration of a page for which the source returned
\* per_page rows, rows that have versionCreated and are not all seen
\* before, it ends because the current_start set from that page is
\* end_date or later: rows that the cleaning removed do not make the page
\* a short one.
C26_FullPageFromSourceIsNotShort ==
    (/\ mode = "paginated" /\ phase = "finish" /\ exc = "none"
     /\ page_count = fetch_calls
     /\ last_page.returned = per_page /\ last_page.oldest_new # 0)
        => /\ cursor = last_page.oldest_new + OneSecond
           /\ cursor >= end_date

-----------------------------------------------------------------------------
(* Properties of the short-page test of the backfill loops (SpecRun) *)

\* C27: when a backfill loop ends, without an exception, in the iteration
\* of a page that has rows but fewer than per_page (none of them removed
\* by the cleaning, all with versionCreated, some of them new), it ends
\* because the next current_end, one second before the oldest new row, is
\* start_date or earlier: the short page does not end the run by itself.
C27_ShortPageDoesNotEndBackfill ==
    (/\ mode \in {"backfill", "backfill_fetch"} /\ phase = "finish"
     /\ exc = "none" /\ page_count = fetch_calls
     /\ last_page.count > 0 /\ last_page.count < per_page
     /\ last_page.returned = last_page.count
     /\ last_page.oldest_new # 0)
        => last_page.oldest_new - OneSecond <= start_date

-----------------------------------------------------------------------------
(* Properties of a page that could not be had (SpecRun) *)

\* The latest iteration fetched a page, and fetch_headlines_with_retry
\* returned None or an empty frame for it.
LastPageEmpty == page_count = fetch_calls /\ last_page.count = 0

\* C28: a page for which fetch_headlines_with_retry returns None (its
\* retries are used up) or an empty frame ends the loop of
\* fetch_headlines_paginated, fetch_headlines_backfill and
\* fetch_and_store_news_backfill without an exception; the frame returned
\* then holds the new rows of all earlier pages, and the backfill run ends
\* with success with the rows of the earlier pages in the table.
C28_EmptyPageEndsRunQuietly ==
    /\ (/\ phase = "loop" /\ page_count > 0 /\ page_count = fetch_calls
        /\ mode \in {"paginated", "backfill_fetch", "backfill"})
           => last_page.count > 0
    /\ (/\ phase \in {"finish", "done"} /\ LastPageEmpty
        /\ mode \in {"paginated", "backfill_fetch", "backfill"})
           => /\ exc = "none"
              /\ mode # "backfill" => Ids(all_news_data) = seen_story_ids
              /\ (phase = "done" /\ mode # "backfill")
                    => Ids(result.frame) = seen_story_ids
              /\ mode = "backfill" => Len(rows) = totals.stored
              /\ (phase = "done" /\ mode = "backfill")
                    => /\ result.success
                       /\ result.articles_stored = Len(rows)

\* fetch_headlines_paginated has returned the rows of its first page after
\* its second page could not be had.
C28_Witness ==
    /\ phase = "done" /\ mode = "paginated"
    /\ LastPageEmpty /\ page_count = 2
    /\ result.frame # <<>>

-----------------------------------------------------------------------------
(* Properties of a backfill that is run again (SpecAgain) *)

\* C29: when a backfill that was run again after a run that crashed or
\* raised has ended after its loop, against a source that answers every
\* request in one way only, the story ids in news_articles are those of the
\* articles this last run alone handed to the store (those one
\* uninterrupted run stores), and no story id is in two rows.
C29_RerunStoresWhatOneRunStores ==
    (/\ phase = "done" /\ mode = "backfill" /\ exc = "none"
     /\ Len(fetch_log) >= 2 /\ SameAnswers)
        => /\ StoredIds(rows) = {i \in Items : forwarded[i] > 0}
           /\ \A i, j \in DOMAIN rows :
                 i # j => rows[i].story_id # rows[j].story_id

\* The first run crashed after it had stored one article; the second run
\* fetched that article again and one more, and stored the one more.
C29_Witness ==
    /\ phase = "done" /\ mode = "backfill" /\ exc = "none"
    /\ Len(fetch_log) = 2 /\ SameAnswers
    /\ fetch_log[1].status = "running"
    /\ totals.fetched = 2 /\ totals.stored = 1
    /\ Len(rows) = 2

-----------------------------------------------------------------------------
(* Properties of fetch_since_latest (SpecSince) *)

\* C30: a call of fetch_since_latest on an application that initialises
\* ends without an exception after it has fetched for its categories, from
\* the latest published_at of news_articles plus one second on, each fetch
\* with a fetch-log row of its own.
C30_SinceLatestFetchesCategories ==
    (/\ mode = "since_latest" /\ phase = "ended"
     /\ is_connected /\ db_is_connected)
        => /\ exc = "none"
           /\ fetch_calls >= 1
           /\ log_id # 0
           /\ rows # <<>> =>
                 \A i \in DOMAIN rows :
                     last_req.lo >= rows[i].published_at + OneSecond

-----------------------------------------------------------------------------
(* NewsFetcher._calculate_priority_scores *)

\* The largest minimum score of a configuration and the longest page that
\* is scored.
MaxMin == 1
MaxScored == 2

\* The terms of the keyword table, one per level, and the categories that
\* detected_category may name.
Terms == {"strike", "price"}
ScoredCategories == {"COPPER", "EQUITY"}

\* priority_scoring.keywords: the score and the terms of each level.
KeywordTables ==
    {[high |-> [score |-> 2, terms |-> {"strike"}],
      low |-> [score |-> 1, terms |-> {"price"}]],
     [high |-> [score |-> 1, terms |-> {"strike", "price"}],
      low |-> [score |-> 1, terms |-> {"price"}]]}

\* priority_scoring: keywords, category_minimum_scores (a dict over some of
\* the categories, perhaps none) and minimum_score.
ScoringConfigs ==
    [keywords : KeywordTables,
     category_minimum_scores :
         UNION {[S -> 0..MaxMin] : S \in SUBSET ScoredCategories},
     minimum_score : 0..MaxMin]

\* A row of the frame: the terms that occur in its headline or body and the
\* categories of its detected_category column (none: the empty string).
ScoredRows == [words : SUBSET Terms,
               detected_category : SUBSET ScoredCategories]

\* The sum of f over S.
RECURSIVE SumOver(_, _)
SumOver(f, S) ==
    IF S = {} THEN 0
    ELSE LET x == CHOOSE x \in S : TRUE IN f[x] + SumOver(f, S \ {x})

\* The loops over the levels and their terms: level_score is added once
\* for every term of the level that is in the text.
score_of(row, levels) ==
    SumOver([level \in DOMAIN levels |->
                levels[level].score
                * Cardinality(levels[level].terms \cap row.words)],
            DOMAIN levels)

\* A requirement that is the lowest of the minimums of the categories.
get_required_score_lowest(categories, category_min_scores) ==
    LET required == {IF cat \in DOMAIN category_min_scores
                     THEN category_min_scores[cat] ELSE 0 :
                        cat \in categories}
    IN  IF required = {} THEN 0
        ELSE CHOOSE r \in required : \A q \in required : r <= q

\* get_required_score: max_required starts at 0 and is raised to
\* category_min_scores.get(cat, 0) by every category that requires more.
get_required_score(categories, category_min_scores) ==
    LET required == {0} \cup
                    {IF cat \in DOMAIN category_min_scores
                     THEN category_min_scores[cat] ELSE 0 :
                        cat \in categories}
    IN  CHOOSE r \in required : \A q \in required : r >= q

\* sort_values('priority_score', ascending=False), rows of one score in
\* the order they had.
RECURSIVE sort_values(_)
sort_values(data) ==
    IF data = <<>> THEN <<>>
    ELSE LET i == CHOOSE i \in DOMAIN data : \A j \in DOMAIN data :
                      \/ data[i].priority_score > data[j].priority_score
                      \/ /\ data[i].priority_score = data[j].priority_score
                         /\ i <= j
         IN  <<data[i]>> \o sort_values(RemoveAt(data, i))

\* _calculate_priority_scores(data) under a configuration.
calculate_priority_scores(data, scoring_config) ==
    LET scored == [i \in DOMAIN data |->
                     [words |-> data[i].words,
                      detected_category |-> data[i].detected_category,
                      priority_score |->
                          score_of(data[i], scoring_config.keywords)]]
        category_min_scores == scoring_config.category_minimum_scores
        Required(r) ==
            r.priority_score >= get_required_score(r.detected_category,
                                                   category_min_scores)
        by_category == IF DOMAIN category_min_scores # {}
                       THEN SelectSeq(scored, Required) ELSE scored
        min_score == scoring_config.minimum_score
        Enough(r) == r.priority_score >= min_score
        by_minimum == IF min_score > 0 THEN SelectSeq(by_category, Enough)
                      ELSE by_category
    IN  IF data = <<>> THEN data ELSE sort_values(by_minimum)

\* A cleaned page with its categories detected, and a configuration.
InitScore ==
    /\ rows = <<>>
    /\ db_is_connected = FALSE
    /\ \E data \in SeqsUpTo(ScoredRows, MaxScored),
          scoring_config \in ScoringConfigs :
        ret = [op |-> "init", data |-> data,
               scoring_config |-> scoring_config, value |-> <<>>]
    /\ fetch_log = <<>>
    /\ similarity_enabled = FALSE
    /\ ts = [i \in Items |-> 1]
    /\ srcMode = "arbitrary"
    /\ RunIdle
    /\ NetIdle
    /\ is_connected = TRUE
    /\ NoRow

\* if priority_scoring.enabled: cleaned_data =
\* self._calculate_priority_scores(cleaned_data)
CalculatePriorityScores ==
    /\ ret.op = "init"
    /\ ret' = [ret EXCEPT
                  !.op = "calculate_priority_scores",
                  !.value = calculate_priority_scores(ret.data,
                                                      ret.scoring_config)]
    /\ UNCHANGED <<rows, db_is_connected, fetch_log, similarity_enabled>>
    /\ UNCHANGED notDbVars

NextScore == CalculatePriorityScores

SpecScore == InitScore /\ [][NextScore]_vars

-----------------------------------------------------------------------------
(* Properties of priority scoring (SpecScore) *)

\* One for every term of the row that a level lists, weighted by the score
\* of the level.
AdditiveScore(row, keywords) ==
    (IF "strike" \in row.words /\ "strike" \in keywords.high.terms
     THEN keywords.high.score ELSE 0)
    + (IF "price" \in row.words /\ "price" \in keywords.high.terms
       THEN keywords.high.score ELSE 0)
    + (IF "strike" \in row.words /\ "strike" \in keywords.low.terms
       THEN keywords.low.score ELSE 0)
    + (IF "price" \in row.words /\ "price" \in keywords.low.terms
       THEN keywords.low.score ELSE 0)

\* The minimums configured for the categories of a row.
ConfiguredMinimums(row, config) ==
    {config.category_minimum_scores[cat] :
        cat \in row.detected_category
                \cap DOMAIN config.category_minimum_scores}

\* A row is to be kept: its score is no less than each minimum configured
\* for one of its categories and no less than minimum_score.
ToBeKept(row, config) ==
    /\ \A required \in ConfiguredMinimums(row, config) :
          AdditiveScore(row, config.keywords) >= required
    /\ AdditiveScore(row, config.keywords) >= 0
    /\ AdditiveScore(row, config.keywords) >= config.minimum_score

\* C31: the frame _calculate_priority_scores returns holds, with their
\* additive scores, exactly the rows of the page whose score is at least
\* the highest minimum configured for their categories (0 if there is none)
\* and at least minimum_score, each as often as the page holds it.
C31_KeptIffScoreMeetsMinimums ==
    ret.op = "calculate_priority_scores"
        => /\ \A k \in DOMAIN ret.value :
                 /\ ret.value[k].priority_score
                      = AdditiveScore(ret.value[k], ret.scoring_config.keywords)
                 /\ ToBeKept(ret.value[k], ret.scoring_config)
           /\ \A i \in DOMAIN ret.data :
                 ToBeKept(ret.data[i], ret.scoring_config)
                    => Cardinality({k \in DOMAIN ret.value :
                          /\ ret.value[k].words = ret.data[i].words
                          /\ ret.value[k].detected_category
                               = ret.data[i].detected_category})
                       = Cardinality({j \in DOMAIN ret.data :
                                         ret.data[j] = ret.data[i]})

\* A row of two categories with a score between their minimums was dropped
\* and a row that met its minimums was kept.
C31_Witness ==
    /\ ret.op = "calculate_priority_scores"
    /\ Len(ret.data) = 2 /\ Len(ret.value) = 1
    /\ \E i \in DOMAIN ret.data :
         /\ ret.data[i].detected_category = ScoredCategories
         /\ DOMAIN ret.scoring_config.category_minimum_scores
              = ScoredCategories
         /\ AdditiveScore(ret.data[i], ret.scoring_config.keywords)
              < ret.scoring_config.category_minimum_scores["COPPER"]
         /\ AdditiveScore(ret.data[i], ret.scoring_config.keywords)
              >= ret.scoring_config.category_minimum_scores["EQUITY"]

-----------------------------------------------------------------------------
(* DatabaseManager._is_duplicate_by_similarity *)

\* The hour of the newest published_at a stored or offered article has
\* (the oldest is hour 1).
MaxHour == 2

\* The default of check_window_hours.
check_window_hours == 24

\* The default of similarity_threshold, 0.85, in twentieths.
similarity_threshold_default == 17

\* The thresholds the configuration may set, in twentieths (0.4 and 0.85).
Thresholds == {8, similarity_threshold_default}

\* The headlines of the articles that are compared.
SimilarHeadlines == {"copper up", "Copper up", "copper", "a b"}

\* The analyzer of TfidfVectorizer: the headline in lower case, cut into
\* the words of two characters or more.
tokenize(headline) ==
    CASE headline \in {"copper up", "Copper up"} -> <<"copper", "up">>
      [] headline = "copper" -> <<"copper">>
      [] OTHER -> <<>>

\* ngram_range=(1, 2): the words and the pairs of neighbouring words.
ngrams(headline) ==
    LET words == tokenize(headline)
    IN  {<<words[i]>> : i \in DOMAIN words}
        \cup {<<words[i], words[i + 1]>> : i \in 1..(Len(words) - 1)}

\* How often a feature occurs in a headline.
tf(feature, headline) ==
    LET words == tokenize(headline)
    IN  Cardinality({i \in 1..(Len(words) - Len(feature) + 1) :
                        SubSeq(words, i, i + Len(feature) - 1) = feature})

\* The features fit_transform learns from the documents.
vocabulary(docs) == UNION {ngrams(docs[i]) : i \in DOMAIN docs}

\* The smoothed inverse document frequency ln((1 + n) / (1 + df)) + 1 of a
\* feature that df of n documents hold, in tenths.
idf(n, df) ==
    CASE df >= n -> 10
      [] n = 2 /\ df = 1 -> 14
      [] n = 3 /\ df = 1 -> 17
      [] n = 3 /\ df = 2 -> 13
      [] n = 4 /\ df = 1 -> 19
      [] n = 4 /\ df = 2 -> 15
      [] n = 4 /\ df = 3 -> 12
      [] n = 5 /\ df = 1 -> 21
      [] n = 5 /\ df = 2 -> 17
      [] n = 5 /\ df = 3 -> 14
      [] n = 5 /\ df = 4 -> 12
      [] OTHER -> 10

\* The weight of a feature in the row fit_transform builds for document k.
tfidf(docs, k, feature) ==
    tf(feature, docs[k])
    * idf(Len(docs),
          Cardinality({i \in DOMAIN docs : feature \in ngrams(docs[i])}))

\* The product of rows k and l of the matrix.
RowProduct(docs, k, l) ==
    SumOver([feature \in vocabulary(docs) |->
                tfidf(docs, k, feature) * tfidf(docs, l, feature)],
            vocabulary(docs))

\* cosine_similarity of rows k and l is at least threshold twentieths (a
\* row of zeros has similarity 0 to every row).
ReachesThreshold(docs, k, l, threshold) ==
    /\ RowProduct(docs, k, k) > 0
    /\ RowProduct(docs, l, l) > 0
    /\ RowProduct(docs, k, l) * RowProduct(docs, k, l) * 400
         >= threshold * threshold
             * RowProduct(docs, k, k) * RowProduct(docs, l, l)

\* A query for the stored articles that leaves the time window out.
recent_articles_ever(table, now) == table

\* The stored articles whose published_at is time_threshold or later.
recent_articles(table, now) ==
    SelectSeq(table, LAMBDA a : a.published_at >= now - check_window_hours)

\* A check that takes an article for a duplicate when it cannot compare it.
duplicate_by_similarity_or_error(table, article, now, threshold, fault) ==
    IF fault
    THEN [value |-> TRUE, error |-> "OperationalError"]
    ELSE LET recent == recent_articles(table, now)
             existing_headlines ==
                 [i \in DOMAIN recent |-> recent[i].headline]
                 \o <<article.headline>>
         IN  IF recent = <<>>
             THEN [value |-> FALSE, error |-> "none"]
             ELSE IF vocabulary(existing_headlines) = {}
             THEN [value |-> TRUE, error |-> "ValueError"]
             ELSE [value |-> \E i \in DOMAIN recent :
                                ReachesThreshold(existing_headlines,
                                                 Len(existing_headlines), i,
                                                 threshold),
                   error |-> "none"]

\* The verdict of _is_duplicate_by_similarity and the exception its try
\* block ended with ("none": it ran to a return).  fault: the session
\* fails.
duplicate_by_similarity(table, article, now, threshold, fault) ==
    IF fault
    THEN [value |-> FALSE, error |-> "OperationalError"]
    ELSE LET recent == recent_articles(table, now)
             existing_headlines ==
                 [i \in DOMAIN recent |-> recent[i].headline]
                 \o <<article.headline>>
         IN  IF recent = <<>>
             THEN [value |-> FALSE, error |-> "none"]
             ELSE IF vocabulary(existing_headlines) = {}
             THEN [value |-> FALSE, error |-> "ValueError"]
             ELSE [value |-> \E i \in DOMAIN recent :
                                ReachesThreshold(existing_headlines,
                                                 Len(existing_headlines), i,
                                                 threshold),
                   error |-> "none"]

\* The articles of a list at which the similarity check of the for loop
\* answers True, from article i on (each check sees the articles inserted
\* before it).  check_faults: the indices at which the session of the check
\* fails.
RECURSIVE SimilarityHits(_, _, _, _, _, _)
SimilarityHits(table, articles, i, now, threshold, check_faults) ==
    IF i > Len(articles)
    THEN {}
    ELSE IF /\ similarity_enabled
            /\ duplicate_by_similarity(table, articles[i], now, threshold,
                                       i \in check_faults).value
    THEN {i} \cup SimilarityHits(table, articles, i + 1, now, threshold,
                                 check_faults)
    ELSE SimilarityHits(insert_news_article(table, TRUE, articles[i],
                                            FALSE).rows,
                        articles, i + 1, now, threshold, check_faults)

\* The articles the store holds and is offered in SpecSimilar.
DatedArticles ==
    [story_id : StoryIds, headline : SimilarHeadlines,
     published_at : {1, MaxHour}]

\* The tables of SpecSimilar: no story_id twice.
DatedTables ==
    {table \in SeqsUpTo(DatedArticles, MaxRows) :
        \A i, j \in DOMAIN table :
            table[i].story_id = table[j].story_id => i = j}

\* A connected manager on a database that holds articles; none of them is
\* younger than the clock.
InitSimilar ==
    /\ rows \in DatedTables
    /\ db_is_connected = TRUE
    /\ similarity_enabled \in BOOLEAN
    /\ ret = [op |-> "init", before |-> <<>>, articles |-> <<>>,
              now |-> 0, threshold |-> 0, check_faults |-> {},
              attempts |-> <<>>, counts |-> NoCounts]
    /\ fetch_log = <<>>
    /\ ts = [i \in Items |-> 1]
    /\ srcMode = "arbitrary"
    /\ RunIdle
    /\ NetIdle
    /\ is_connected = FALSE
    /\ NoRow

\* bulk_insert_news_articles with the verdicts of the similarity check
\* computed from the headlines.  now: the clock of the call, in hours
\* (the newest article is as old as the window is long).
BulkInsertChecked ==
    /\ ret.op = "init"
    /\ \E articles \in {a \in SeqsUpTo(DatedArticles, MaxBulk) :
                            Len(rows) + Len(a) <= MaxRows},
          now \in {check_window_hours + MaxHour},
          threshold \in Thresholds :
       \E check_faults \in {{}} \cup {{i} : i \in DOMAIN articles} :
       \E hits \in {SimilarityHits(rows, articles, 1, now, threshold,
                                   check_faults)} :
       \E r \in {bulk_insert_news_articles(rows, db_is_connected, articles,
                                           {}, hits)} :
        /\ rows' = r.rows
        /\ ret' = [op |-> "bulk_insert", before |-> rows,
                   articles |-> articles, now |-> now,
                   threshold |-> threshold, check_faults |-> check_faults,
                   attempts |-> BulkAttempts(rows, articles, 1, {}, hits),
                   counts |-> [inserted_count |-> r.inserted_count,
                               failed_count |-> r.failed_count,
                               total_processed |-> r.total_processed]]
    /\ UNCHANGED <<db_is_connected, fetch_log, similarity_enabled>>
    /\ UNCHANGED notDbVars

NextSimilar == BulkInsertChecked

SpecSimilar == InitSimilar /\ [][NextSimilar]_vars

-----------------------------------------------------------------------------
(* Properties of the similarity check (SpecSimilar) *)

\* The table the check of article i of the last bulk insert saw: the table
\* before the call and the articles of the list inserted before i.
TableAt(i) ==
    ret.before
    \o SelectSeq([j \in 1..(i - 1) |->
                     IF ret.attempts[j] = "inserted"
                     THEN ret.articles[j]
                     ELSE [story_id |-> Missing, headline |-> "",
                           published_at |-> Missing]],
                 LAMBDA a : a.story_id # Missing)

\* The stored articles published within the window that ends at the clock
\* of the call.
InWindow(i) ==
    {k \in DOMAIN TableAt(i) :
        TableAt(i)[k].published_at + check_window_hours >= ret.now}

\* The headlines of the window, in the order of the table, and the one of
\* article i after them.
Corpus(i) ==
    [k \in 1..Cardinality(InWindow(i)) |->
        TableAt(i)[CHOOSE m \in InWindow(i) :
                      Cardinality({l \in InWindow(i) : l <= m}) = k].headline]
    \o <<ret.articles[i].headline>>

\* The headline of article i is as similar as the threshold asks to the
\* headline of a stored article of the window.
SimilarToStored(i) ==
    \E k \in 1..Cardinality(InWindow(i)) :
        ReachesThreshold(Corpus(i), Len(Corpus(i)), k, ret.threshold)

\* The check of article i could not run: the session failed, the window
\* holds no article, or no headline has a word to build the vectors from.
CannotRun(i) ==
    \/ i \in ret.check_faults
    \/ InWindow(i) = {}
    \/ vocabulary(Corpus(i)) = {}

\* C32: a bulk insert turns an article down for similarity exactly when
\* detection is enabled and its headline is at least as similar as the
\* threshold to the headline of a stored article published within the
\* trailing window (where the check ran); with detection disabled no
\* article is turned down for similarity.
C32_RejectedIffSimilar ==
    ret.op = "bulk_insert"
        => \A i \in DOMAIN ret.articles :
              /\ i \notin ret.check_faults
                    => (ret.attempts[i] = "similar"
                          <=> similarity_enabled /\ SimilarToStored(i))
              /\ ~similarity_enabled => ret.attempts[i] # "similar"

\* With detection enabled and the default threshold, of two articles of a
\* list the first was inserted and the second, a new story whose headline
\* differs from the first in case only, was turned down.
C32_Witness ==
    /\ ret.op = "bulk_insert"
    /\ similarity_enabled
    /\ ret.threshold = similarity_threshold_default
    /\ ret.check_faults = {}
    /\ Len(ret.before) = 0
    /\ ret.attempts = <<"inserted", "similar">>
    /\ ret.articles[1].headline # ret.articles[2].headline
    /\ ret.articles[1].story_id # ret.articles[2].story_id

\* With detection enabled an article as similar as the threshold asks to a
\* stored article that is older than the window was inserted.
C32_WitnessOutsideWindow ==
    /\ ret.op = "bulk_insert"
    /\ similarity_enabled
    /\ ret.check_faults = {}
    /\ Len(ret.articles) = 1
    /\ Len(ret.before) = 1
    /\ ret.attempts = <<"inserted">>
    /\ ret.before[1].headline = ret.articles[1].headline
    /\ tokenize(ret.articles[1].headline) # <<>>
    /\ ret.before[1].published_at + check_window_hours < ret.now

\* What insert_news_article makes of article i of the last bulk insert.
InsertOutcome(i) ==
    LET err == InsertException(TableAt(i), ret.articles[i], FALSE)
    IN  IF err = "none" THEN "inserted" ELSE err

\* C33: with detection enabled, an article whose similarity check cannot
\* run (no stored article in the window, no vector space, or an error
\* raised in the check) is not turned down for similarity and goes on to
\* insert_news_article; a bulk insert in which no check can run ends as it
\* does with detection disabled.
C33_UncheckedGoesToInsert ==
    (ret.op = "bulk_insert" /\ similarity_enabled)
        => /\ \A i \in DOMAIN ret.articles :
                 CannotRun(i) => ret.attempts[i] = InsertOutcome(i)
           /\ (\A i \in DOMAIN ret.articles : CannotRun(i))
                 => LET r == bulk_insert_news_articles(ret.before, TRUE,
                                                       ret.articles, {}, {})
                    IN  /\ rows = r.rows
                        /\ ret.counts.inserted_count = r.inserted_count
                        /\ ret.counts.failed_count = r.failed_count

\* With detection enabled the session of the check failed at an article
\* whose headline a stored article of the window has, and the article was
\* inserted.
C33_Witness ==
    /\ ret.op = "bulk_insert"
    /\ similarity_enabled
    /\ ret.check_faults = {1}
    /\ Len(ret.articles) = 1
    /\ Len(ret.before) = 1
    /\ SimilarToStored(1)
    /\ ret.attempts = <<"inserted">>
    /\ Len(rows) = 2

\* With detection enabled an article was inserted whose headline and the
\* only headline of the window are the same and hold no word of two
\* characters.
C33_WitnessNoVectorSpace ==
    /\ ret.op = "bulk_insert"
    /\ similarity_enabled
    /\ ret.check_faults = {}
    /\ Len(ret.articles) = 1
    /\ Len(ret.before) = 1
    /\ InWindow(1) = {1}
    /\ ret.before[1].headline = ret.articles[1].headline
    /\ vocabulary(Corpus(1)) = {}
    /\ ret.attempts = <<"inserted">>

-----------------------------------------------------------------------------
(* NewsFetcher.create_news_articles on the cells of a frame *)

\* Most rows of the frame handed to create_news_articles in SpecArticles.
MaxFrame == 2

\* The missing values a cell of a frame may hold: None, and the float NaN
\* pandas puts where a value is missing.
NoneCell == "None"
NaNCell == "nan"

\* The rows of a frame: the cells of the columns create_news_articles
\* reads.  versionCreated holds a Timestamp, an ISO string or None.
FrameRows ==
    [storyId : {"001", NoneCell, NaNCell},
     text : {"Valid", "", NaNCell},
     versionCreated : {"Timestamp", "2024-01-01T10:00:00Z", NoneCell},
     sourceCode : {"NS:RTRS", NoneCell}]

\* The truth value Python gives a cell: None and '' are false, every other
\* value (NaN too) is true.
truth(cell) == cell \notin {NoneCell, ""}

\* all([...]) of the cells.
all(cells) == \A cell \in cells : truth(cell)

\* The try block of create_news_articles for one row: the articles appended
\* (none: the row is left out) and the exception the block ended with.  'RTRS' in source_code raises TypeError when the cell is no
\* string; str() of a cell is the cell as text.
create_article(row) ==
    IF ~all({row.storyId, row.text, row.versionCreated})
    THEN [appended |-> <<>>, error |-> "none"]
    ELSE IF row.sourceCode = NoneCell
    THEN [appended |-> <<>>, error |-> "TypeError"]
    ELSE [appended |-> <<[story_id |-> row.storyId, headline |-> row.text,
                          published_at |-> "datetime",
                          source |-> "Reuters"]>>,
          error |-> "none"]

\* The list create_news_articles returns: the articles of the rows, in
\* order; the except clause of the loop catches every exception.
RECURSIVE create_news_articles_of(_)
create_news_articles_of(data) ==
    IF data = <<>>
    THEN <<>>
    ELSE create_article(Head(data)).appended
         \o create_news_articles_of(Tail(data))

InitArticles ==
    /\ ret \in [op : {"init"}, data : SeqsUpTo(FrameRows, MaxFrame),
                value : {<<>>}, raised : {FALSE}]
    /\ rows = <<>>
    /\ db_is_connected = FALSE
    /\ fetch_log = <<>>
    /\ similarity_enabled = FALSE
    /\ ts = [i \in Items |-> 1]
    /\ srcMode = "arbitrary"
    /\ RunIdle
    /\ NetIdle
    /\ is_connected = TRUE
    /\ NoRow

CreateNewsArticles ==
    /\ ret.op = "init"
    /\ ret' = [ret EXCEPT !.op = "create_news_articles",
                          !.value = create_news_articles_of(ret.data)]
    /\ UNCHANGED <<rows, db_is_connected, fetch_log, similarity_enabled>>
    /\ UNCHANGED notDbVars

NextArticles == CreateNewsArticles

SpecArticles == InitArticles /\ [][NextArticles]_vars

-----------------------------------------------------------------------------
(* Properties of create_news_articles (SpecArticles) *)

\* A row that has its identifier, its headline and its timestamp: none of
\* the three cells is None, '' or NaN.
WellFormed(row) ==
    \A cell \in {row.storyId, row.text, row.versionCreated} :
        cell \notin {NoneCell, "", NaNCell}

\* C34: create_news_articles does not raise and returns one article for
\* every row of the frame that has identifier, headline and timestamp, in
\* the order of the frame, and none for a row that misses one of them.
C34_MalformedDroppedOthersKept ==
    ret.op = "create_news_articles"
        => /\ ~ret.raised
           /\ LET kept == SelectSeq(ret.data, WellFormed)
              IN  /\ Len(ret.value) = Len(kept)
                  /\ \A k \in DOMAIN kept :
                        /\ ret.value[k].story_id = kept[k].storyId
                        /\ ret.value[k].headline = kept[k].text

\* A row whose identifier, headline or timestamp is None or '' is left out,
\* nothing is raised, and the rows with a source code that have all three
\* are converted in order.
C34_NoneAndEmptyDropped ==
    (/\ ret.op = "create_news_articles"
     /\ \A i \in DOMAIN ret.data :
           /\ NaNCell \notin {ret.data[i].storyId, ret.data[i].text}
           /\ ret.data[i].sourceCode # NoneCell)
        => C34_MalformedDroppedOthersKept

-----------------------------------------------------------------------------
(* DatabaseManager.cleanup_old_articles *)

\* A DELETE that takes the articles published at the cutoff too.
cleanup_through_cutoff(table, connected, cutoff_date, fault) ==
    IF ~connected \/ fault
    THEN [rows |-> table, value |-> 0]
    ELSE [rows |-> SelectSeq(table,
                             LAMBDA a : ~(a.published_at <= cutoff_date)),
          value |-> Cardinality({i \in DOMAIN table :
                                    table[i].published_at <= cutoff_date})]

\* cleanup_old_articles(cutoff_date): the table it leaves and the count it
\* returns.  fault: the session raises and the DELETE is rolled back.
cleanup_old_articles(table, connected, cutoff_date, fault) ==
    IF ~connected \/ fault
    THEN [rows |-> table, value |-> 0]
    ELSE [rows |-> SelectSeq(table,
                             LAMBDA a : ~(a.published_at < cutoff_date)),
          value |-> Cardinality({i \in DOMAIN table :
                                    table[i].published_at < cutoff_date})]

\* The tables cleanup is called on in SpecCleanup: articles of one headline,
\* published at the oldest or at the newest hour.
CleanupTables ==
    {table \in DatedTables :
        \A i \in DOMAIN table : table[i].headline = "copper"}

\* A connected manager on a database that holds articles and an empty
\* fetch log.
InitCleanup ==
    /\ rows \in CleanupTables
    /\ db_is_connected = TRUE
    /\ similarity_enabled = FALSE
    /\ ret = [op |-> "init"]
    /\ fetch_log = <<>>
    /\ ts = [i \in Items |-> 1]
    /\ srcMode = "arbitrary"
    /\ RunIdle
    /\ NetIdle
    /\ is_connected = FALSE
    /\ NoRow

\* cleanup_old_articles(cutoff_date), with what it returns.
CleanupOldArticles ==
    /\ \E cutoff_date \in 1..(MaxHour + 1), fault \in BOOLEAN :
       \E r \in {cleanup_old_articles(rows, db_is_connected, cutoff_date,
                                      fault)} :
           /\ rows' = r.rows
           /\ ret' = [op |-> "cleanup_old_articles",
                      cutoff_date |-> cutoff_date, value |-> r.value,
                      done |-> db_is_connected /\ ~fault]
    /\ UNCHANGED <<db_is_connected, fetch_log, similarity_enabled>>
    /\ UNCHANGED notDbVars

NextCleanup ==
    \/ Connect
    \/ CleanupOldArticles
    \/ CallInsert
    \/ CallStartFetchLog
    \/ CallCompleteFetchLog

\* A manager on a filled database and the calls made on it.
SpecCleanup == InitCleanup /\ [][NextCleanup]_vars

-----------------------------------------------------------------------------
(* Properties of cleanup (SpecCleanup) *)

\* The articles of a table published before a time.
PublishedBefore(table, time) ==
    {i \in DOMAIN table : table[i].published_at < time}

\* One table is another without the rows of a set of indices.
Without(table, dropped, left) ==
    /\ Len(left) = Len(table) - Cardinality(dropped)
    /\ \A i \in DOMAIN table \ dropped :
          left[i - Cardinality({d \in dropped : d < i})] = table[i]

\* C35: a cleanup_old_articles(cutoff) that the database carries out
\* removes the articles published before the cutoff and no other, returns
\* how many they were and leaves the fetch log as it is (a call the
\* database does not carry out removes nothing and returns 0); no call of
\* the manager takes a record out of the fetch log.
C35_CleanupDeletesOldOnly ==
    [][/\ ret'.op = "cleanup_old_articles"
          => /\ fetch_log' = fetch_log
             /\ IF ret'.done
                THEN /\ Without(rows,
                                PublishedBefore(rows, ret'.cutoff_date),
                                rows')
                     /\ ret'.value
                          = Cardinality(PublishedBefore(rows,
                                                        ret'.cutoff_date))
                ELSE rows' = rows /\ ret'.value = 0
       /\ Len(fetch_log') >= Len(fetch_log)]_vars

\* A cleanup removed one of two articles and kept the one published at the
\* cutoff, while the fetch log held a record.
C35_Witness ==
    /\ ret.op = "cleanup_old_articles"
    /\ ret.done
    /\ ret.value = 1
    /\ Len(rows) = 1
    /\ rows[1].published_at = ret.cutoff_date
    /\ fetch_log # <<>>

-----------------------------------------------------------------------------
(* NewsScheduler.run, stop and the registry of the schedule module *)

\* Most calls of run() made on a scheduler.
MaxStarts == 2

\* The jobs setup_schedules registers.  The first and the last are run at
\* intervals, the other two at a time of day.
PeriodicJobs ==
    {"_fetch_latest_news", "_daily_batch", "_weekly_maintenance",
     "_health_check"}
AtTimeJobs == {"_daily_batch", "_weekly_maintenance"}

\* A scheduler after __init__, in a process whose schedule module holds no
\* job.  registry: how many entries of schedule.jobs run the job; ran: how
\* often run_pending() ran the job the last time it was called;
\* stop_requested: where run() was when stop() was first called during it.
NewScheduler ==
    [pc |-> "idle", running |-> FALSE, should_stop |-> FALSE,
     stop_requested |-> "no", starts |-> 0,
     registry |-> [job \in PeriodicJobs |-> 0],
     ran |-> [job \in PeriodicJobs |-> 0]]

InitSched ==
    /\ sched = NewScheduler
    /\ retry = NoCall
    /\ outcomes = <<>>
    /\ net_events = <<>>
    /\ is_connected = FALSE
    /\ rows = <<>>
    /\ db_is_connected = FALSE
    /\ ret = [op |-> "init"]
    /\ fetch_log = <<>>
    /\ similarity_enabled = FALSE
    /\ ts = [i \in Items |-> 1]
    /\ srcMode = "arbitrary"
    /\ RunIdle
    /\ NoRow

\* A setup_schedules that registers a job only if the registry does not
\* hold it.
setup_schedules_once(registry, initialized) ==
    IF ~initialized
    THEN [registry |-> registry, value |-> FALSE]
    ELSE [registry |-> [job \in PeriodicJobs |-> 1], value |-> TRUE]

\* setup_schedules: the registry it leaves and what it returns.
\* initialized: what app.initialize() returns.
setup_schedules(registry, initialized) ==
    IF ~initialized
    THEN [registry |-> registry, value |-> FALSE]
    ELSE [registry |-> [job \in PeriodicJobs |-> registry[job] + 1],
          value |-> TRUE]

\* run() is called; `if self.running: return`.
Run ==
    /\ sched.pc = "idle"
    /\ sched.starts < MaxStarts
    /\ sched' = IF sched.running
                THEN sched
                ELSE [sched EXCEPT !.pc = "setup", !.starts = @ + 1,
                                   !.stop_requested = "no"]
    /\ UNCHANGED <<is_connected, retry, outcomes, net_events>>
    /\ UNCHANGED <<dbVars, srcVars, runVars, histVars, clsVars>>

\* `if not self.setup_schedules(): return`
SetupSchedules ==
    /\ sched.pc = "setup"
    /\ \E initialized \in BOOLEAN :
       \E r \in {setup_schedules(sched.registry, initialized)} :
           sched' = [sched EXCEPT !.registry = r.registry,
                                  !.pc = IF r.value THEN "set_running"
                                         ELSE "idle"]
    /\ UNCHANGED <<is_connected, retry, outcomes, net_events>>
    /\ UNCHANGED <<dbVars, srcVars, runVars, histVars, clsVars>>

\* self.running = True
SetRunning ==
    /\ sched.pc = "set_running"
    /\ sched' = [sched EXCEPT !.running = TRUE, !.pc = "clear_stop"]
    /\ UNCHANGED <<is_connected, retry, outcomes, net_events>>
    /\ UNCHANGED <<dbVars, srcVars, runVars, histVars, clsVars>>

\* self.should_stop = False
ClearStop ==
    /\ sched.pc = "clear_stop"
    /\ sched' = [sched EXCEPT !.should_stop = FALSE, !.pc = "loop"]
    /\ UNCHANGED <<is_connected, retry, outcomes, net_events>>
    /\ UNCHANGED <<dbVars, srcVars, runVars, histVars, clsVars>>

\* The numbers of entries of the jobs that can be due at one call of
\* run_pending(): the entries of a job run at a time of day are due
\* together, those of a job run at intervals each from its registration on.
DueEntries(registry) ==
    {due \in [PeriodicJobs -> 0..MaxStarts] :
        \A job \in PeriodicJobs :
            /\ due[job] <= registry[job]
            /\ job \in AtTimeJobs => due[job] \in {0, registry[job]}}

\* One turn of `while not self.should_stop`: schedule.run_pending() runs
\* every entry that is due (raised: an exception leaves the loop for the
\* finally clause, as the end of the loop does).
RunPending ==
    /\ sched.pc = "loop"
    /\ IF sched.should_stop
       THEN sched' = [sched EXCEPT !.pc = "finally"]
       ELSE \E due \in DueEntries(sched.registry), raised \in BOOLEAN :
               sched' = [sched EXCEPT !.ran = due,
                                      !.pc = IF raised THEN "finally"
                                             ELSE "loop"]
    /\ UNCHANGED <<is_connected, retry, outcomes, net_events>>
    /\ UNCHANGED <<dbVars, srcVars, runVars, histVars, clsVars>>

\* finally: self.running = False, and run() returns.
Finally ==
    /\ sched.pc = "finally"
    /\ sched' = [sched EXCEPT !.running = FALSE, !.pc = "idle"]
    /\ UNCHANGED <<is_connected, retry, outcomes, net_events>>
    /\ UNCHANGED <<dbVars, srcVars, runVars, histVars, clsVars>>

\* stop(), called directly or by _signal_handler on SIGINT or SIGTERM,
\* wherever run() is.
Stop ==
    /\ sched' = [sched EXCEPT
                    !.should_stop = TRUE,
                    !.stop_requested =
                        IF sched.pc = "idle" \/ @ # "no" THEN @
                        ELSE IF sched.pc \in {"loop", "finally"} THEN "loop"
                        ELSE "before_loop"]
    /\ UNCHANGED <<is_connected, retry, outcomes, net_events>>
    /\ UNCHANGED <<dbVars, srcVars, runVars, histVars, clsVars>>

\* fetch_since_latest(monitor=True) while run() is not in progress: it
\* returns when initialize() fails and raises AttributeError at
\* get_latest_article_time() otherwise, before it registers its job.
MonitorStart ==
    /\ sched.pc = "idle"
    /\ \E initialized \in BOOLEAN :
        ret' = [op |-> "fetch_since_latest",
                exc |-> IF initialized THEN "AttributeError" ELSE "none"]
    /\ UNCHANGED <<rows, db_is_connected, fetch_log, similarity_enabled>>
    /\ UNCHANGED notDbVars

\* The statements of run().
RunSteps ==
    \/ SetupSchedules
    \/ SetRunning
    \/ ClearStop
    \/ RunPending
    \/ Finally

NextSched ==
    \/ Run
    \/ RunSteps
    \/ Stop
    \/ MonitorStart

SpecSched == InitSched /\ [][NextSched]_vars

\* run() is code that runs on: none of its statements waits for ever.
FairSpecSched == SpecSched /\ WF_vars(RunSteps)

-----------------------------------------------------------------------------
(* Properties of the scheduler (SpecSched, FairSpecSched) *)

\* run() has returned.
RunReturned == sched.pc = "idle" /\ ~sched.running

\* C36: once stop() was called while run() was in progress, wherever run()
\* was, run() returns in the end and running is False.
C36_StopNeverLost ==
    [](sched.stop_requested # "no" => <>RunReturned)

\* A stop() called once run() has reached its loop makes run() return.
C36_StopInLoopHonoured ==
    [](sched.stop_requested = "loop" => <>RunReturned)

\* C40: every periodic job has at most one entry in the registry of the
\* schedule module, and one call of run_pending() runs no job twice.
C40_RegisteredOnce ==
    \A job \in PeriodicJobs : sched.registry[job] <= 1 /\ sched.ran[job] <= 1

-----------------------------------------------------------------------------
(* Properties of the orchestrators, continued (SpecRun, SpecSince) *)

\* C37: fetch_headlines_paginated raises nothing: whatever pages the source
\* returns, a full page of rows seen on earlier pages included, the loop
\* ends without an exception.
C37_PaginatedNeverRaises ==
    mode = "paginated" => exc = "none"

\* The same, against a source that returns only rows of the range it is
\* asked for.
C37_NeverRaisesOnHonestSource ==
    (mode = "paginated" /\ SourceHonoursRange) => exc = "none"

\* After a run of fetch_since_latest has ended, a new process is started on
\* the same database and source; its application is connected, as the one
\* of InitRun is.
SinceLatestAgain ==
    /\ phase = "ended" /\ mode = "since_latest"
    /\ Len(fetch_log) < MaxLog
    /\ phase' = "idle"
    /\ mode' = "none"
    /\ exc' = "none"
    /\ is_connected' = TRUE
    /\ db_is_connected' = TRUE
    /\ UNCHANGED <<per_page, max_pages, start_date, end_date, cursor,
                   page_count, seen_story_ids, all_news_data, totals, log_id,
                   result>>
    /\ UNCHANGED <<rows, ret, fetch_log, similarity_enabled>>
    /\ UNCHANGED <<retry, outcomes, net_events, sched>>
    /\ UNCHANGED <<srcVars, histVars, clsVars>>

NextRepeat ==
    \/ NextSince
    \/ SinceLatestAgain

\* The jobs of a process and the runs of fetch_since_latest that follow.
SpecRepeat == InitRun /\ [][NextRepeat]_vars

\* fetch_since_latest is run again and again, and each run comes to its
\* end.
FairSpecRepeat ==
    SpecRepeat /\ WF_vars(FetchSinceLatest) /\ WF_vars(SinceLatestAgain)

\* A story of the source that is not stored and is published after every
\* stored article.
NewerThanStored(i) ==
    /\ i \notin StoredIds(rows)
    /\ \A k \in DOMAIN rows : ts[i] > rows[k].published_at

\* A run of fetch_since_latest has ended on an application that reached the
\* source and the database.
SinceLatestRanConnected ==
    /\ mode = "since_latest" /\ phase = "ended"
    /\ is_connected /\ db_is_connected

\* C38: if runs of fetch_since_latest that reach the source and the
\* database keep being made, every story of the source published after the
\* latest stored published_at is stored in the end.
C38_NewerItemsEventuallyStored ==
    ([]<>SinceLatestRanConnected)
        => \A i \in Items : [](NewerThanStored(i) => <>(i \in StoredIds(rows)))

-----------------------------------------------------------------------------
(* Properties of the fetch log, continued (SpecLog) *)

\* C39: every row of news_fetch_log has the status "running", "completed"
\* or "failed", has no fetch_end exactly when its status is "running", and
\* once it is "completed" or "failed" it stays in the log and is never
\* "running" again.
C39_FetchLogStatus ==
    /\ [](\A id \in DOMAIN fetch_log :
            /\ fetch_log[id].status \in {"running", "completed", "failed"}
            /\ ~fetch_log[id].ended <=> fetch_log[id].status = "running")
    /\ [][\A id \in DOMAIN fetch_log :
            fetch_log[id].status \in {"completed", "failed"}
                => /\ id \in DOMAIN fetch_log'
                   /\ fetch_log'[id].status # "running"]_vars

\* complete_fetch_log has ended the first row as "failed", with its counts,
\* while a later row is "running".
C39_Witness ==
    /\ ret.op = "complete_fetch_log"
    /\ ret.value
    /\ Len(fetch_log) = 2
    /\ fetch_log[1].status = "failed"
    /\ fetch_log[1].articles_fetched # 0
    /\ fetch_log[2].status = "running"

====
